---- MODULE Spec2Model ----
(***************************************************************************)
(* A state-machine model of the scripts of solana-starter/ts/cluster1:     *)
(* keygen, airdrop, spl_init, spl_init_metaplex, spl_mint, spl_transfer,   *)
(* spl_metadata, nft_image, nft_metadata and nft_mint, run by an operator  *)
(* against one local key file and one remote ledger.                       *)
(***************************************************************************)
EXTENDS Integers, Sequences, FiniteSets, TLC

(***************************************************************************)
(* Arbitrary-precision naturals (JavaScript BigInt, u64 ledger amounts).   *)
(* A number is the sequence of its base-10000 limbs, least significant     *)
(* first, without leading zero limbs; zero is the empty sequence.          *)
(***************************************************************************)
Limb == 100 * 100

RECURSIVE BigNorm(_)
BigNorm(s) ==
    IF s = <<>> THEN <<>>
    ELSE IF s[Len(s)] = 0 THEN BigNorm(SubSeq(s, 1, Len(s) - 1))
    ELSE s

RECURSIVE BigFromNat(_)
BigFromNat(n) ==
    IF n = 0 THEN <<>> ELSE <<n % Limb>> \o BigFromNat(n \div Limb)

\* x * k + carry for a machine-size k
RECURSIVE BigMulCarry(_, _, _)
BigMulCarry(x, k, carry) ==
    IF x = <<>> THEN BigFromNat(carry)
    ELSE LET t == x[1] * k + carry
         IN  <<t % Limb>> \o BigMulCarry(Tail(x), k, t \div Limb)

BigMulSmall(x, k) == BigNorm(BigMulCarry(x, k, 0))

\* x * y, schoolbook
RECURSIVE BigAddCarry(_, _, _)
BigAddCarry(x, y, carry) ==
    IF x = <<>> /\ y = <<>> THEN BigFromNat(carry)
    ELSE LET a == IF x = <<>> THEN 0 ELSE x[1]
             b == IF y = <<>> THEN 0 ELSE y[1]
             t == a + b + carry
         IN  <<t % Limb>> \o
             BigAddCarry(IF x = <<>> THEN <<>> ELSE Tail(x),
                         IF y = <<>> THEN <<>> ELSE Tail(y), t \div Limb)

BigAdd(x, y) == BigNorm(BigAddCarry(x, y, 0))

RECURSIVE BigMul(_, _)
BigMul(x, y) ==
    IF y = <<>> THEN <<>>
    ELSE BigAdd(BigMulSmall(x, y[1]),
                LET r == BigMul(x, Tail(y)) IN IF r = <<>> THEN <<>> ELSE <<0>> \o r)

\* comparison, most significant limb first
RECURSIVE BigLtFrom(_, _, _)
BigLtFrom(x, y, i) ==
    IF i = 0 THEN FALSE
    ELSE IF x[i] # y[i] THEN x[i] < y[i]
    ELSE BigLtFrom(x, y, i - 1)

BigLt(x, y) ==
    IF Len(x) # Len(y) THEN Len(x) < Len(y) ELSE BigLtFrom(x, y, Len(x))

BigLe(x, y) == ~BigLt(y, x)

\* x - y for y <= x
RECURSIVE BigSubBorrow(_, _, _)
BigSubBorrow(x, y, borrow) ==
    IF x = <<>> THEN <<>>
    ELSE LET b == IF y = <<>> THEN 0 ELSE y[1]
             t == x[1] - b - borrow
         IN  <<IF t < 0 THEN t + Limb ELSE t>> \o
             BigSubBorrow(Tail(x), IF y = <<>> THEN <<>> ELSE Tail(y),
                          IF t < 0 THEN 1 ELSE 0)

BigSub(x, y) == BigNorm(BigSubBorrow(x, y, 0))

\* truncating division by a machine-size k, limbs taken most significant first
RECURSIVE BigDivRem(_, _, _)
BigDivRem(x, k, rem) ==
    IF x = <<>> THEN <<>>
    ELSE LET cur == rem * Limb + x[Len(x)]
         IN  BigDivRem(SubSeq(x, 1, Len(x) - 1), k, cur % k) \o <<cur \div k>>

BigDivSmall(x, k) == BigNorm(BigDivRem(x, k, 0))

RECURSIVE BigPow10(_)
BigPow10(d) == IF d = 0 THEN <<1>> ELSE BigMulSmall(BigPow10(d - 1), 10)

(***************************************************************************)
(* Strings are sequences of one-character strings, so that length and      *)
(* substring search are computed as String.prototype.length / includes do. *)
(***************************************************************************)
Includes(s, sub) ==
    \E i \in 1..(Len(s) - Len(sub) + 1) : SubSeq(s, i, i + Len(sub) - 1) = sub

PASTE == <<"<", "P", "A", "S", "T", "E">>

RECURSIVE Repeat(_, _)
Repeat(c, n) == IF n = 0 THEN <<>> ELSE <<c>> \o Repeat(c, n - 1)

(***************************************************************************)
(* Bounds of the model.                                                    *)
(***************************************************************************)
MaxRuns == 2
NumKeys == 2
NumMints == 2
NumRecipients == 2
\* the whole-token amounts the fee arithmetic is compared over
MaxTokens == 24

Procs == {"p1", "p2"}
Keys == 1..NumKeys
\* the addresses spl_transfer sends to; they are no wallet keys
Recipients == (NumKeys + 1)..(NumKeys + NumRecipients)
Owners == Keys \cup Recipients
MintAddrs == 1..NumMints

(***************************************************************************)
(* Program constants.                                                      *)
(***************************************************************************)
LAMPORTS_PER_SOL == 1000000000

\* airdrop.ts: balance >= 0.5 * LAMPORTS_PER_SOL
AirdropThreshold == BigFromNat(LAMPORTS_PER_SOL \div 2)
\* airdrop.ts: requestAirdrop(publicKey, 2 * LAMPORTS_PER_SOL)
AirdropAmount == BigMulSmall(BigFromNat(LAMPORTS_PER_SOL), 2)

\* spl_init.ts
SplInit_TRANSFER_FEE_BASIS_POINTS == 100
SplInit_MAX_FEE == BigFromNat(1000000000)
SplInit_DECIMALS == 9

\* spl_init_metaplex.ts
SplInitMetaplex_DECIMALS == 9

\* spl_mint.ts
SplMint_DECIMALS == 9
SplMint_AMOUNT_TO_MINT == 1000000000

\* spl_transfer.ts
SplTransfer_DECIMALS == 9
SplTransfer_TRANSFER_FEE_BASIS_POINTS == 100
SplTransfer_MAX_FEE == BigFromNat(1000000000)
SplTransfer_TRANSFER_AMOUNT == 100

\* the largest amount a ledger account holds: 2^64 - 1
U64Max == <<1615, 955, 737, 6744, 1844>>

(***************************************************************************)
(* spl_transfer.ts: the amount in base units and the fee it declares.      *)
(***************************************************************************)
\* an amount left in whole tokens
TransferAmountUnscaled(c) == BigFromNat(c.amount)

\* BigInt(TRANSFER_AMOUNT) * BigInt(10 ** DECIMALS)
TransferAmount(c) == BigMul(BigFromNat(c.amount), BigPow10(c.decimals))

\* (transferAmount * BigInt(TRANSFER_FEE_BASIS_POINTS)) / BigInt(10000)
CalculatedFee(c) ==
    BigDivSmall(BigMul(TransferAmount(c), BigFromNat(c.bps)), 10000)

\* a fee computation that forgets the cap
FeeUncapped(c) == CalculatedFee(c)

\* calculatedFee > MAX_FEE ? MAX_FEE : calculatedFee
Fee(c) ==
    IF BigLt(c.maxFee, CalculatedFee(c)) THEN c.maxFee ELSE CalculatedFee(c)

\* an amount to mint left in whole tokens
TokensToMintUnscaled == BigFromNat(SplMint_AMOUNT_TO_MINT)

\* spl_mint.ts: BigInt(AMOUNT_TO_MINT) * BigInt(10 ** DECIMALS)
TokensToMint == BigMul(BigFromNat(SplMint_AMOUNT_TO_MINT), BigPow10(SplMint_DECIMALS))

(***************************************************************************)
(* The remote ledger.  Its programs are not part of the repository; the    *)
(* rules below are the ones the scripts rely on (spec sections 3 and 4).   *)
(***************************************************************************)
NoMint ==
    [exists |-> FALSE, program |-> "none", space |-> "none", feeInit |-> FALSE,
     bps |-> 0, maxFee |-> <<>>, initialized |-> FALSE, decimals |-> 0,
     authority |-> 0, supply |-> <<>>]

NoAta == [exists |-> FALSE, amount |-> <<>>, withheld |-> <<>>]

NoMeta == [kind |-> "none", uri |-> <<>>]

EmptyLedger ==
    [lamports |-> [k \in Keys |-> <<>>],
     mint |-> [m \in MintAddrs |-> NoMint],
     ata |-> [a \in Owners \X MintAddrs |-> NoAta],
     meta |-> [m \in MintAddrs |-> NoMeta],
     rounding |-> "floor"]

\* the fee the token program withholds for a transfer of `amount` of mint `mt`:
\* amount * bps / 10000, rounded as the ledger rounds, at most the cap
RoundedQuotient(prod, down, rounding) ==
    IF rounding = "ceil" /\ BigMulSmall(down, 10000) # prod
    THEN BigAdd(down, <<1>>) ELSE down

Capped(raw, cap) == IF BigLt(cap, raw) THEN cap ELSE raw

FeeOfProduct(prod, mt, rounding) ==
    Capped(RoundedQuotient(prod, BigDivSmall(prod, 10000), rounding), mt.maxFee)

LedgerFee(L, mt, amount) ==
    IF ~mt.feeInit THEN <<>>
    ELSE FeeOfProduct(BigMulSmall(amount, mt.bps), mt, L.rounding)

Rejected(L) == [ok |-> FALSE, L |-> L]
Accepted(L) == [ok |-> TRUE, L |-> L]

\* an account is created with the rent-exempt minimum, which its payer
\* must hold
CanPay(L, k) == L.lamports[k] # <<>>

ApplyCreateAccount(L, ix) ==
    IF L.mint[ix.addr].exists \/ ~CanPay(L, ix.payer) THEN Rejected(L)
    ELSE Accepted([L EXCEPT !.mint[ix.addr] =
            [NoMint EXCEPT !.exists = TRUE, !.program = ix.program,
                           !.space = ix.space]])

ApplyInitializeTransferFeeConfig(L, ix) ==
    LET mt == L.mint[ix.mint]
    IN  IF mt.exists /\ mt.program = ix.program /\ ix.program = "token2022"
           /\ ~mt.initialized /\ ~mt.feeInit /\ mt.space = "fee"
        THEN Accepted([L EXCEPT !.mint[ix.mint] =
                [mt EXCEPT !.feeInit = TRUE, !.bps = ix.bps, !.maxFee = ix.maxFee]])
        ELSE Rejected(L)

\* the account's size must be the size of a mint with exactly the
\* extensions that are initialized at this point
ApplyInitializeMint(L, ix) ==
    LET mt == L.mint[ix.mint]
    IN  IF mt.exists /\ mt.program = ix.program /\ ~mt.initialized
           /\ (mt.space = "fee" <=> mt.feeInit)
        THEN Accepted([L EXCEPT !.mint[ix.mint] =
                [mt EXCEPT !.initialized = TRUE, !.decimals = ix.decimals,
                           !.authority = ix.authority, !.supply = <<>>]])
        ELSE Rejected(L)

ApplyCreateAssociatedTokenAccount(L, ix) ==
    LET mt == L.mint[ix.mint]
    IN  IF mt.initialized /\ mt.program = ix.program
           /\ ~L.ata[<<ix.owner, ix.mint>>].exists
           /\ CanPay(L, ix.payer)
        THEN Accepted([L EXCEPT !.ata[<<ix.owner, ix.mint>>] =
                [exists |-> TRUE, amount |-> <<>>, withheld |-> <<>>]])
        ELSE Rejected(L)

ApplyMintTo(L, ix) ==
    LET mt == L.mint[ix.mint]
        acc == L.ata[<<ix.dest, ix.mint>>]
    IN  IF mt.initialized /\ mt.program = ix.program /\ acc.exists
           /\ mt.authority = ix.authority
           /\ BigLe(BigAdd(mt.supply, ix.amount), U64Max)
        THEN Accepted([L EXCEPT
                !.mint[ix.mint].supply = BigAdd(mt.supply, ix.amount),
                !.ata[<<ix.dest, ix.mint>>].amount = BigAdd(acc.amount, ix.amount)])
        ELSE Rejected(L)

\* the program recomputes the fee from the mint's configuration and
\* rejects the instruction when the declared fee differs
ApplyTransferCheckedWithFee(L, ix) ==
    LET mt == L.mint[ix.mint]
        src == L.ata[<<ix.source, ix.mint>>]
        dst == L.ata[<<ix.dest, ix.mint>>]
    IN  IF mt.initialized /\ mt.program = ix.program
           /\ src.exists /\ dst.exists /\ ix.source # ix.dest
           /\ ix.authority = ix.source
           /\ ix.decimals = mt.decimals
           /\ BigLe(ix.amount, src.amount)
           /\ ix.fee = LedgerFee(L, mt, ix.amount)
        THEN Accepted([L EXCEPT
                !.ata[<<ix.source, ix.mint>>].amount = BigSub(src.amount, ix.amount),
                !.ata[<<ix.dest, ix.mint>>].amount =
                    BigAdd(dst.amount, BigSub(ix.amount, ix.fee)),
                !.ata[<<ix.dest, ix.mint>>].withheld = BigAdd(dst.withheld, ix.fee)])
        ELSE Rejected(L)

ApplyCreateMetadataAccountV3(L, ix) ==
    LET mt == L.mint[ix.mint]
    IN  IF mt.initialized /\ mt.authority = ix.authority
           /\ L.meta[ix.mint].kind = "none"
           /\ CanPay(L, ix.authority)
        THEN Accepted([L EXCEPT !.meta[ix.mint] = [kind |-> "fungible", uri |-> ix.uri]])
        ELSE Rejected(L)

\* mint, holding account, metadata and master edition in one instruction
ApplyCreateNft(L, ix) ==
    IF L.mint[ix.mint].exists \/ ~CanPay(L, ix.authority) THEN Rejected(L)
    ELSE Accepted([L EXCEPT
            !.mint[ix.mint] =
                [NoMint EXCEPT !.exists = TRUE, !.program = "token", !.space = "base",
                               !.initialized = TRUE, !.supply = <<1>>],
            !.meta[ix.mint] = [kind |-> "nft", uri |-> ix.uri]])

Apply(L, ix) ==
    CASE ix.ix = "createAccount" -> ApplyCreateAccount(L, ix)
      [] ix.ix = "initializeTransferFeeConfig" -> ApplyInitializeTransferFeeConfig(L, ix)
      [] ix.ix = "initializeMint" -> ApplyInitializeMint(L, ix)
      [] ix.ix = "createAssociatedTokenAccount" -> ApplyCreateAssociatedTokenAccount(L, ix)
      [] ix.ix = "mintTo" -> ApplyMintTo(L, ix)
      [] ix.ix = "transferCheckedWithFee" -> ApplyTransferCheckedWithFee(L, ix)
      [] ix.ix = "createMetadataAccountV3" -> ApplyCreateMetadataAccountV3(L, ix)
      [] ix.ix = "createNft" -> ApplyCreateNft(L, ix)

\* a transaction: its instructions in order, all of them or none
RECURSIVE ApplyAll(_, _, _)
ApplyRest(r, L0, rest) == IF r.ok THEN ApplyAll(L0, r.L, rest) ELSE Rejected(L0)

ApplyAll(L0, L, ixs) ==
    IF ixs = <<>> THEN Accepted(L) ELSE ApplyRest(Apply(L, Head(ixs)), L0, Tail(ixs))

ProcessTransaction(L, ixs) == ApplyAll(L, L, ixs)

(***************************************************************************)
(* Operator-editable constants of the scripts, as the values a run starts  *)
(* with.  The shipped values come first in each set.                       *)
(***************************************************************************)
UriValid == <<"h","t","t","p","s",":","/","/","i","r","y","s",".","x","y","z","/","2","M","G">>
UriEmpty == <<>>
UriShort == <<"h","t","t","p">>
UriNine == <<"h","t","t","p",":","/","/","a","b">>
UriTen == <<"h","t","t","p",":","/","/","a",".","b">>
UriPasteShort == PASTE \o <<">">>
UriPaste == PASTE \o <<"_","U","R","I","_","H","E","R","E",">">>

UriInputs == {UriValid, UriEmpty, UriShort, UriNine, UriTen, UriPasteShort, UriPaste}

\* what the content store returns for the document a script uploads
UploadedUri(script) ==
    <<"h","t","t","p","s",":","/","/","a","r","w","e","a","v","e",".","n","e","t","/">>
        \o (CASE script = "nft_image" -> <<"i","m","g">>
              [] script = "nft_metadata" -> <<"n","f","t">>
              [] OTHER -> <<"s","p","l">>)

Digits == <<"1","2","3","4","5","6","7","8","9">>

\* the base58 text of a mint address
AddressText(m) == Repeat("A", 31) \o <<Digits[m]>>
AddressPaste == PASTE \o Repeat("_", 30)
AddressShort == <<"a","b","c">>
AddressInvalid == Repeat("0", 32)

\* publicKey(MINT_ADDRESS): the address the text decodes to, 0 when it throws
PublicKeyOf(s) ==
    IF \E m \in MintAddrs : AddressText(m) = s
    THEN CHOOSE m \in MintAddrs : AddressText(m) = s
    ELSE 0

NoCfg ==
    [mint |-> 0, amount |-> 0, decimals |-> 0, bps |-> 0, maxFee |-> <<>>,
     address |-> <<>>, upload |-> FALSE, uri |-> <<>>]

ShippedTransfer ==
    [amount |-> SplTransfer_TRANSFER_AMOUNT, decimals |-> SplTransfer_DECIMALS,
     bps |-> SplTransfer_TRANSFER_FEE_BASIS_POINTS, maxFee |-> SplTransfer_MAX_FEE]

TransferEdits ==
    {ShippedTransfer,
     [ShippedTransfer EXCEPT !.amount = 1],
     [ShippedTransfer EXCEPT !.amount = 250],
     [ShippedTransfer EXCEPT !.bps = 50],
     [ShippedTransfer EXCEPT !.maxFee = BigFromNat(500000000)],
     [ShippedTransfer EXCEPT !.amount = 12345, !.decimals = 0],
     [ShippedTransfer EXCEPT !.amount = 3, !.decimals = 2, !.bps = 33]}

Scripts ==
    {"keygen", "airdrop", "spl_init", "spl_init_metaplex", "spl_mint",
     "spl_transfer", "spl_metadata", "nft_image", "nft_metadata", "nft_mint"}

Configs(script) ==
    CASE script = "spl_mint" -> {[NoCfg EXCEPT !.mint = m] : m \in MintAddrs}
      [] script = "spl_transfer" ->
            {[NoCfg EXCEPT !.mint = m, !.amount = t.amount, !.decimals = t.decimals,
                           !.bps = t.bps, !.maxFee = t.maxFee] :
                m \in MintAddrs, t \in TransferEdits}
      [] script = "spl_metadata" ->
            {[NoCfg EXCEPT !.address = a, !.upload = TRUE, !.uri = UriValid] :
                a \in {AddressPaste, AddressShort, AddressInvalid}}
            \cup {[NoCfg EXCEPT !.address = AddressText(m), !.upload = TRUE, !.uri = u] :
                m \in MintAddrs, u \in {UriValid, UriEmpty}}
            \cup {[NoCfg EXCEPT !.address = AddressText(m), !.upload = FALSE, !.uri = u] :
                m \in MintAddrs, u \in UriInputs}
      [] script \in {"nft_metadata", "nft_mint"} ->
            {[NoCfg EXCEPT !.uri = u] : u \in UriInputs}
      [] OTHER -> {NoCfg}

(***************************************************************************)
(* State.                                                                  *)
(*   keyFile  the key cluster1/wallet/dev-wallet.json holds, 0 when absent *)
(*   ledger   the remote ledger                                            *)
(*   run      per process: the script it runs, its position, its locals,   *)
(*            the network and file operations it has made (log) and the    *)
(*            kinds of lines it has printed (out)                          *)
(*   started  the number of runs started so far                            *)
(*   ledger0  the ledger as it was before the first run (never changes)    *)
(***************************************************************************)
VARIABLES keyFile, ledger, run, started, ledger0

vars == <<keyFile, ledger, run, started, ledger0>>

Idle ==
    [script |-> "none", pc |-> "idle", cfg |-> NoCfg, key |-> 0, mint |-> 0, to |-> 0,
     seen |-> "unknown", balance |-> <<>>, newBalance |-> <<>>, uri |-> <<>>,
     drop |-> "none", log |-> <<>>, out |-> <<>>, result |-> "none"]

FirstPc(script) == IF script = "keygen" THEN "kg_write" ELSE "load"

NewRun(script, cfg) ==
    [Idle EXCEPT !.script = script, !.pc = FirstPc(script), !.cfg = cfg,
                 !.result = "running"]

\* a log entry: the operation, how it ended for the caller and, for a
\* transaction, its instructions, whether the ledger processed it and
\* whether the ledger applied it
Entry(op, res) ==
    [op |-> op, res |-> res, ixs |-> <<>>, processed |-> FALSE, applied |-> FALSE]
TxEntry(op, res, o) ==
    [op |-> op, res |-> res, ixs |-> o.ixs, processed |-> o.processed,
     applied |-> o.applied]

\* an awaited step returned: go on
Advance(r, pc, e) == [r EXCEPT !.pc = pc, !.log = Append(@, e)]

\* the run is over
Finish(r, result, prints) ==
    [r EXCEPT !.pc = "end", !.result = result, !.out = @ \o prints]

\* a publisher handler that prints both explanations for every error
CatchPrintsBoth(script, msg) ==
    CASE script = "airdrop" -> <<"oops", "manual-airdrop">>
      [] script \in {"spl_init", "spl_init_metaplex", "spl_mint", "spl_transfer"} ->
            <<"oops">>
      [] script = "spl_metadata" -> <<"error", "nft-explanation", "troubleshooting">>
      [] OTHER -> <<"error", "troubleshooting">>

\* what each script's catch block prints for an error with message kind msg
CatchPrints(script, msg) ==
    CASE script = "airdrop" -> <<"oops", "manual-airdrop">>
      [] script \in {"spl_init", "spl_init_metaplex", "spl_mint", "spl_transfer"} ->
            <<"oops">>
      [] script = "spl_metadata" ->
            IF msg = "pnft" THEN <<"error", "nft-explanation">>
            ELSE <<"error", "troubleshooting">>
      [] OTHER -> <<"error", "troubleshooting">>

\* a handler that logs the error and runs the failed step again
CaughtAndRetried(r, e, msg) ==
    [Advance(r, r.pc, e) EXCEPT !.out = @ \o CatchPrints(r.script, msg)]

\* a script without a handler around the step
CaughtByNoHandler(r, e, msg) == Finish(Advance(r, "end", e), "uncaught", <<>>)

\* an awaited step threw inside the script's try block
Caught(r, e, msg) ==
    Finish(Advance(r, "end", e), "caught", CatchPrints(r.script, msg))

\* an exception no handler of the script catches
Uncaught(r, e) == Finish(Advance(r, "end", e), "uncaught", <<>>)

\* a validation branch that returns instead of exiting
Exit1Returns(r) == Finish(r, "returned", <<"validation-error">>)

\* process.exit(1) after a validation message
Exit1(r) == Finish(r, "exit1", <<"validation-error">>)

\* the status the process of an ended run exits with: 1 after
\* process.exit(1) and after an exception nothing catches, 0 when the
\* script runs to its end, through its catch block included
ExitStatus(result) == IF result \in {"exit1", "uncaught"} THEN 1 ELSE 0

(***************************************************************************)
(* Submitting a transaction and waiting for its confirmation: the request  *)
(* fails and nothing is processed, or the ledger processes it and the      *)
(* client learns the outcome, or the ledger processes it and the wait for  *)
(* the confirmation fails.                                                 *)
(***************************************************************************)
TxHows == {"fail", "processed", "unconfirmed"}

Outcome(r, L, ixs, how) ==
    CASE how = "fail" -> [thrown |-> TRUE, applied |-> FALSE, L |-> L, ixs |-> ixs,
                          processed |-> FALSE]
      [] how = "processed" -> [thrown |-> ~r.ok, applied |-> r.ok, L |-> r.L,
                               ixs |-> ixs, processed |-> TRUE]
      [] how = "unconfirmed" -> [thrown |-> TRUE, applied |-> r.ok, L |-> r.L,
                                 ixs |-> ixs, processed |-> TRUE]

Submit(L, ixs, how) == Outcome(ProcessTransaction(L, ixs), L, ixs, how)

\* a caller that takes every submission for a success
AfterTxUnchecked(r, o, op, pc, prints, msg) ==
    IF pc = "end"
    THEN Finish(Advance(r, pc, TxEntry(op, "ok", o)), "success", prints)
    ELSE [Advance(r, pc, TxEntry(op, "ok", o)) EXCEPT !.out = @ \o prints]

\* a caller that submits again when a submission fails
AfterTxRetry(r, o, op, pc, prints, msg) ==
    IF o.thrown THEN Advance(r, r.pc, TxEntry(op, "fail", o))
    ELSE IF pc = "end"
         THEN Finish(Advance(r, pc, TxEntry(op, "ok", o)), "success", prints)
         ELSE [Advance(r, pc, TxEntry(op, "ok", o)) EXCEPT !.out = @ \o prints]

\* a caller that logs a failed submission and goes on to its next statement
AfterTxContinue(r, o, op, pc, prints, msg) ==
    IF o.thrown
    THEN IF pc = "end" THEN Caught(r, TxEntry(op, "fail", o), msg)
         ELSE Advance(r, pc, TxEntry(op, "fail", o))
    ELSE IF pc = "end"
         THEN Finish(Advance(r, pc, TxEntry(op, "ok", o)), "success", prints)
         ELSE [Advance(r, pc, TxEntry(op, "ok", o)) EXCEPT !.out = @ \o prints]

\* the run after a submission with outcome o: the catch block, or the next
\* statement (the last one prints the success lines)
AfterTx(r, o, op, pc, prints, msg) ==
    IF o.thrown THEN Caught(r, TxEntry(op, "fail", o), msg)
    ELSE IF pc = "end"
         THEN Finish(Advance(r, pc, TxEntry(op, "ok", o)), "success", prints)
         ELSE [Advance(r, pc, TxEntry(op, "ok", o)) EXCEPT !.out = @ \o prints]

Settle(p, o, op, pc, prints, msg) ==
    /\ ledger' = o.L
    /\ run' = [run EXCEPT ![p] = AfterTx(@, o, op, pc, prints, msg)]

Running(r) == r.pc \notin {"idle", "end"}

\* Keypair.generate() for a new mint: an address no account has
FreshMint(L) ==
    CHOOSE m \in MintAddrs :
        ~L.mint[m].exists /\ \A n \in MintAddrs : n < m => L.mint[n].exists

HasFreshMint(L) == \E m \in MintAddrs : ~L.mint[m].exists

\* spl_transfer.ts: const to = Keypair.generate().publicKey, an address that
\* owns no account
Unused(L, o) == \A m \in MintAddrs : ~L.ata[<<o, m>>].exists

FreshRecipient(L) ==
    CHOOSE o \in Recipients :
        Unused(L, o) /\ \A n \in Recipients : n < o => ~Unused(L, n)

HasFreshRecipient(L) == \E o \in Recipients : Unused(L, o)

NeedsFreshMint(script) == script \in {"spl_init", "spl_init_metaplex", "nft_mint"}

(***************************************************************************)
(* The operator starts a script.  Scripts are run one at a time, except    *)
(* that two Token Minter runs may overlap; p2 follows only the second of   *)
(* two Token Minter runs, so that two of them can be told apart.           *)
(***************************************************************************)
StartRun(p) ==
    /\ started < MaxRuns
    /\ ~Running(run[p])
    /\ \A q \in Procs : run[q].drop # "pending"
    /\ \E script \in Scripts : \E cfg \in Configs(script) :
         /\ script = "keygen" => keyFile < NumKeys
         /\ NeedsFreshMint(script) => HasFreshMint(ledger)
         /\ script = "spl_transfer" => HasFreshRecipient(ledger)
         /\ IF p = "p1"
            THEN /\ Running(run["p2"]) => script = "spl_mint"
                 /\ run' = [run EXCEPT
                        !["p1"] = NewRun(script, cfg),
                        !["p2"] = IF script = "spl_mint" THEN @ ELSE Idle]
            ELSE /\ script = "spl_mint"
                 /\ run["p1"].script = "spl_mint"
                 /\ run' = [run EXCEPT ![p] = NewRun(script, cfg)]
    /\ started' = started + 1
    /\ UNCHANGED <<keyFile, ledger, ledger0>>

\* the process is killed between two steps
Crash(p) ==
    /\ Running(run[p])
    /\ run' = [run EXCEPT ![p] = Finish(@, "crashed", <<>>)]
    /\ UNCHANGED <<keyFile, ledger, started, ledger0>>

(***************************************************************************)
(* keygen.ts                                                               *)
(***************************************************************************)
KgWrite(p) ==
    /\ run[p].pc = "kg_write"
    /\ \/ /\ keyFile' = keyFile + 1
          /\ run' = [run EXCEPT ![p] =
                Finish(Advance(@, "end", Entry("writeFile", "ok")), "success",
                       <<"generated">>)]
       \/ /\ run' = [run EXCEPT ![p] = Uncaught(@, Entry("writeFile", "fail"))]
          /\ UNCHANGED keyFile
    /\ UNCHANGED <<ledger, started, ledger0>>

(***************************************************************************)
(* Every other script: import wallet from "./wallet/dev-wallet.json" and   *)
(* Keypair.fromSecretKey at module level, before the try block.            *)
(***************************************************************************)
\* a Balance Funder that asks the faucet before it reads the balance
BodyPcRequestFirst(script) ==
    CASE script = "airdrop" -> "a_request"
      [] script = "spl_init" -> "i_rent"
      [] script = "spl_init_metaplex" -> "x_createMint"
      [] script = "spl_mint" -> "m_getAccountInfo"
      [] script = "spl_transfer" -> "t_getAccountInfo"
      [] script = "spl_metadata" -> "d_validate"
      [] script = "nft_image" -> "g_readFile"
      [] script = "nft_metadata" -> "n_validate"
      [] script = "nft_mint" -> "f_validate"

BodyPc(script) ==
    CASE script = "airdrop" -> "a_getBalance"
      [] script = "spl_init" -> "i_rent"
      [] script = "spl_init_metaplex" -> "x_createMint"
      [] script = "spl_mint" -> "m_getAccountInfo"
      [] script = "spl_transfer" -> "t_getAccountInfo"
      [] script = "spl_metadata" -> "d_validate"
      [] script = "nft_image" -> "g_readFile"
      [] script = "nft_metadata" -> "n_validate"
      [] script = "nft_mint" -> "f_validate"

LoadWallet(p) ==
    /\ run[p].pc = "load"
    /\ run' = [run EXCEPT ![p] =
            IF keyFile = 0 THEN Uncaught(@, Entry("loadWallet", "fail"))
            ELSE [Advance(@, BodyPc(@.script), Entry("loadWallet", "ok"))
                    EXCEPT !.key = keyFile,
                           !.to = IF run[p].script = "spl_transfer"
                                  THEN FreshRecipient(ledger) ELSE 0]]
    /\ UNCHANGED <<keyFile, ledger, started, ledger0>>

(***************************************************************************)
(* airdrop.ts                                                              *)
(***************************************************************************)
\* a threshold test that leaves the boundary out
SufficientStrict(balance) == BigLt(AirdropThreshold, balance)

\* balance >= 0.5 * LAMPORTS_PER_SOL
Sufficient(balance) == BigLe(AirdropThreshold, balance)

AGetBalance(p) ==
    /\ run[p].pc = "a_getBalance"
    /\ \/ LET b == ledger.lamports[run[p].key]
              r == [Advance(run[p], "a_request", Entry("getBalance", "ok"))
                      EXCEPT !.balance = b]
          IN  run' = [run EXCEPT ![p] =
                  IF Sufficient(b) THEN Finish(r, "returned", <<"skip-airdrop">>)
                  ELSE r]
       \/ run' = [run EXCEPT ![p] = Caught(@, Entry("getBalance", "fail"), "generic")]
    /\ UNCHANGED <<keyFile, ledger, started, ledger0>>

ARequest(p) ==
    /\ run[p].pc = "a_request"
    /\ \/ run' = [run EXCEPT ![p] =
              [Advance(@, "a_blockhash", Entry("requestAirdrop", "ok"))
                 EXCEPT !.drop = "pending"]]
       \/ run' = [run EXCEPT ![p] = Caught(@, Entry("requestAirdrop", "fail"), "generic")]
    /\ UNCHANGED <<keyFile, ledger, started, ledger0>>

\* the faucet's transaction is processed by the ledger: it credits the
\* account or it fails
FaucetLand(p) ==
    /\ run[p].drop = "pending"
    /\ \/ /\ ledger' = [ledger EXCEPT !.lamports[run[p].key] = BigAdd(@, AirdropAmount)]
          /\ run' = [run EXCEPT ![p].drop = "landed"]
       \/ /\ run' = [run EXCEPT ![p].drop = "failed"]
          /\ UNCHANGED ledger
    /\ UNCHANGED <<keyFile, started, ledger0>>

ABlockhash(p) ==
    /\ run[p].pc = "a_blockhash"
    /\ \/ run' = [run EXCEPT ![p] = Advance(@, "a_confirm", Entry("getLatestBlockhash", "ok"))]
       \/ run' = [run EXCEPT ![p] = Caught(@, Entry("getLatestBlockhash", "fail"), "generic")]
    /\ UNCHANGED <<keyFile, ledger, started, ledger0>>

\* a wait that returns whether or not the ledger has processed the airdrop
ConfirmedAtOnce(drop) == TRUE

\* await connection.confirmTransaction(...) resolves once the status of the
\* transaction is known, whether it succeeded or failed on chain; it throws
\* when the wait itself fails
Confirmed(drop) == drop # "pending"

AConfirm(p) ==
    /\ run[p].pc = "a_confirm"
    /\ \/ /\ Confirmed(run[p].drop)
          /\ run' = [run EXCEPT ![p] =
                Advance(@, "a_getBalance2", Entry("confirmTransaction", "ok"))]
       \/ run' = [run EXCEPT ![p] =
                Caught(@, Entry("confirmTransaction", "fail"), "generic")]
    /\ UNCHANGED <<keyFile, ledger, started, ledger0>>

AGetBalance2(p) ==
    /\ run[p].pc = "a_getBalance2"
    /\ \/ run' = [run EXCEPT ![p] =
              Finish([Advance(@, "end", Entry("getBalance", "ok"))
                        EXCEPT !.newBalance = ledger.lamports[run[p].key]],
                     "success", <<"success">>)]
       \/ run' = [run EXCEPT ![p] = Caught(@, Entry("getBalance", "fail"), "generic")]
    /\ UNCHANGED <<keyFile, ledger, started, ledger0>>

(***************************************************************************)
(* spl_init.ts                                                             *)
(***************************************************************************)
\* the same three instructions with the mint initialised before its fee
\* extension
SplInitInstructionsMintFirst(mint, key) ==
    <<[ix |-> "createAccount", payer |-> key, addr |-> mint, space |-> "fee",
       program |-> "token2022"],
      [ix |-> "initializeMint", mint |-> mint, decimals |-> SplInit_DECIMALS,
       authority |-> key, program |-> "token2022"],
      [ix |-> "initializeTransferFeeConfig", mint |-> mint,
       bps |-> SplInit_TRANSFER_FEE_BASIS_POINTS, maxFee |-> SplInit_MAX_FEE,
       program |-> "token2022"]>>

\* new Transaction().add(createAccount, initializeTransferFeeConfig, initializeMint)
SplInitInstructions(mint, key) ==
    <<[ix |-> "createAccount", payer |-> key, addr |-> mint, space |-> "fee",
       program |-> "token2022"],
      [ix |-> "initializeTransferFeeConfig", mint |-> mint,
       bps |-> SplInit_TRANSFER_FEE_BASIS_POINTS, maxFee |-> SplInit_MAX_FEE,
       program |-> "token2022"],
      [ix |-> "initializeMint", mint |-> mint, decimals |-> SplInit_DECIMALS,
       authority |-> key, program |-> "token2022"]>>

IRent(p) ==
    /\ run[p].pc = "i_rent"
    /\ \/ run' = [run EXCEPT ![p] =
              [Advance(@, "i_send", Entry("getMinimumBalanceForRentExemption", "ok"))
                 EXCEPT !.mint = FreshMint(ledger)]]
       \/ run' = [run EXCEPT ![p] =
              Caught([@ EXCEPT !.mint = FreshMint(ledger)],
                     Entry("getMinimumBalanceForRentExemption", "fail"), "generic")]
    /\ UNCHANGED <<keyFile, ledger, started, ledger0>>

\* an initializer that sends the account creation as a transaction of its
\* own and stops when a later one fails
ISendSeparately(p) ==
    /\ run[p].pc = "i_send"
    /\ \E how \in TxHows :
         Settle(p, Submit(ledger,
                          SubSeq(SplInitInstructions(run[p].mint, run[p].key), 1, 1), how),
                "sendAndConfirmTransaction", "end", <<"success">>, "generic")
    /\ UNCHANGED <<keyFile, started, ledger0>>

ISend(p) ==
    /\ run[p].pc = "i_send"
    /\ \E how \in TxHows :
         Settle(p, Submit(ledger, SplInitInstructions(run[p].mint, run[p].key), how),
                "sendAndConfirmTransaction", "end", <<"success">>, "generic")
    /\ UNCHANGED <<keyFile, started, ledger0>>

(***************************************************************************)
(* spl_init_metaplex.ts                                                    *)
(***************************************************************************)
\* createMint(connection, payer, mintAuthority, null, DECIMALS, undefined,
\*            undefined, TOKEN_PROGRAM_ID)
CreateMintInstructions(mint, key) ==
    <<[ix |-> "createAccount", payer |-> key, addr |-> mint, space |-> "base",
       program |-> "token"],
      [ix |-> "initializeMint", mint |-> mint, decimals |-> SplInitMetaplex_DECIMALS,
       authority |-> key, program |-> "token"]>>

XCreateMint(p) ==
    /\ run[p].pc = "x_createMint"
    /\ \E how \in TxHows :
         /\ ledger' = Submit(ledger, CreateMintInstructions(FreshMint(ledger), run[p].key),
                             how).L
         /\ run' = [run EXCEPT ![p] =
                AfterTx([@ EXCEPT !.mint = FreshMint(ledger)],
                        Submit(ledger, CreateMintInstructions(FreshMint(ledger), run[p].key),
                               how),
                        "createMint", "end", <<"success">>, "generic")]
    /\ UNCHANGED <<keyFile, started, ledger0>>

(***************************************************************************)
(* spl_mint.ts                                                             *)
(***************************************************************************)
\* a creation transaction that also carries the mint-increase
CreateAtaAndMintInstructions(payer, owner, mint) ==
    <<[ix |-> "createAssociatedTokenAccount", payer |-> payer, owner |-> owner,
       mint |-> mint, program |-> "token2022"],
      [ix |-> "mintTo", mint |-> mint, dest |-> owner, authority |-> payer,
       amount |-> TokensToMint, program |-> "token2022"]>>

\* createAssociatedTokenAccountInstruction(payer, ata, owner, mint,
\*     TOKEN_2022_PROGRAM_ID, ASSOCIATED_TOKEN_PROGRAM_ID)
CreateAtaInstructions(payer, owner, mint) ==
    <<[ix |-> "createAssociatedTokenAccount", payer |-> payer, owner |-> owner,
       mint |-> mint, program |-> "token2022"]>>

\* mintTo(connection, keypair, mint, ata, keypair, tokensToMint, [], undefined,
\*        TOKEN_2022_PROGRAM_ID)
MintToInstructions(key, mint) ==
    <<[ix |-> "mintTo", mint |-> mint, dest |-> key, authority |-> key,
       amount |-> TokensToMint, program |-> "token2022"]>>

\* connection.getAccountInfo(ata): null when no account is at the address
AccountInfo(L, owner, mint) ==
    IF L.ata[<<owner, mint>>].exists THEN "exists" ELSE "absent"

\* a minter that creates the holding account whatever it read
MintAfterReadAlwaysCreate(seen) == "m_createAta"

\* if (!ataInfo) { create } else { skip }
MintAfterRead(seen) == IF seen = "absent" THEN "m_createAta" ELSE "m_mintTo"

MGetAccountInfo(p) ==
    /\ run[p].pc = "m_getAccountInfo"
    /\ \/ LET seen == AccountInfo(ledger, run[p].key, run[p].cfg.mint)
          IN  run' = [run EXCEPT ![p] =
                  [Advance(@, MintAfterRead(seen), Entry("getAccountInfo", "ok"))
                     EXCEPT !.seen = seen, !.mint = run[p].cfg.mint]]
       \/ run' = [run EXCEPT ![p] = Caught(@, Entry("getAccountInfo", "fail"), "generic")]
    /\ UNCHANGED <<keyFile, ledger, started, ledger0>>

MCreateAta(p) ==
    /\ run[p].pc = "m_createAta"
    /\ \E how \in TxHows :
         Settle(p, Submit(ledger, CreateAtaInstructions(run[p].key, run[p].key, run[p].mint),
                          how),
                "sendAndConfirmTransaction", "m_mintTo", <<"ata-created">>, "generic")
    /\ UNCHANGED <<keyFile, started, ledger0>>

MMintTo(p) ==
    /\ run[p].pc = "m_mintTo"
    /\ \E how \in TxHows :
         Settle(p, Submit(ledger, MintToInstructions(run[p].key, run[p].mint), how),
                "mintTo", "end", <<"success">>, "generic")
    /\ UNCHANGED <<keyFile, started, ledger0>>

(***************************************************************************)
(* spl_transfer.ts                                                         *)
(***************************************************************************)
\* transferCheckedWithFee(connection, keypair, fromAta, mint, toAta,
\*     keypair.publicKey, transferAmount, DECIMALS, fee, [], undefined,
\*     TOKEN_2022_PROGRAM_ID)
TransferInstructions(key, to, c) ==
    <<[ix |-> "transferCheckedWithFee", source |-> key, mint |-> c.mint,
       dest |-> to, authority |-> key, amount |-> TransferAmount(c),
       decimals |-> c.decimals, fee |-> Fee(c), program |-> "token2022"]>>

\* a transfer script that never creates the recipient's account
TransferAfterReadNoCreate(seen) == "t_transfer"

\* if (!toAtaInfo) { create }
TransferAfterRead(seen) == IF seen = "absent" THEN "t_createAta" ELSE "t_transfer"

TGetAccountInfo(p) ==
    /\ run[p].pc = "t_getAccountInfo"
    /\ \/ LET seen == AccountInfo(ledger, run[p].to, run[p].cfg.mint)
          IN  run' = [run EXCEPT ![p] =
                  [Advance(@, TransferAfterRead(seen), Entry("getAccountInfo", "ok"))
                     EXCEPT !.seen = seen, !.mint = run[p].cfg.mint]]
       \/ run' = [run EXCEPT ![p] = Caught(@, Entry("getAccountInfo", "fail"), "generic")]
    /\ UNCHANGED <<keyFile, ledger, started, ledger0>>

TCreateAta(p) ==
    /\ run[p].pc = "t_createAta"
    /\ \E how \in TxHows :
         Settle(p, Submit(ledger, CreateAtaInstructions(run[p].key, run[p].to, run[p].mint),
                          how),
                "sendAndConfirmTransaction", "t_transfer", <<"ata-created">>, "generic")
    /\ UNCHANGED <<keyFile, started, ledger0>>

\* the success line is printed as soon as transferCheckedWithFee returns
TTransfer(p) ==
    /\ run[p].pc = "t_transfer"
    /\ \E how \in TxHows :
         Settle(p, Submit(ledger, TransferInstructions(run[p].key, run[p].to, run[p].cfg), how),
                "transferCheckedWithFee", "t_getAccount", <<"success">>, "generic")
    /\ UNCHANGED <<keyFile, started, ledger0>>

TGetAccount(p) ==
    /\ run[p].pc = "t_getAccount"
    /\ \/ run' = [run EXCEPT ![p] =
              Finish(Advance(@, "end", Entry("getAccount", "ok")), "success",
                     <<"recipient-balance">>)]
       \/ run' = [run EXCEPT ![p] = Caught(@, Entry("getAccount", "fail"), "generic")]
    /\ UNCHANGED <<keyFile, ledger, started, ledger0>>

(***************************************************************************)
(* spl_metadata.ts                                                         *)
(***************************************************************************)
\* MINT_ADDRESS.includes("<PASTE") || MINT_ADDRESS.length < 32
MintAddressRejected(a) == Includes(a, PASTE) \/ Len(a) < 32

\* !metadataUri || metadataUri.length < 10
MetadataUriRejected(u) == u = <<>> \/ Len(u) < 10

MetadataInstructions(key, mint, uri) ==
    <<[ix |-> "createMetadataAccountV3", mint |-> mint, authority |-> key,
       uri |-> uri]>>

DValidate(p) ==
    /\ run[p].pc = "d_validate"
    /\ run' = [run EXCEPT ![p] =
            IF MintAddressRejected(@.cfg.address) THEN Exit1(@)
            ELSE IF PublicKeyOf(@.cfg.address) = 0
                 THEN Finish(@, "caught", CatchPrints(@.script, "generic"))
                 ELSE [@ EXCEPT !.pc = "d_getAccount",
                                !.mint = PublicKeyOf(run[p].cfg.address)]]
    /\ UNCHANGED <<keyFile, ledger, started, ledger0>>

\* a publisher that uploads only when no usable URI is provided
AfterMintCheckProvidedFirst(r) ==
    IF ~MetadataUriRejected(r.cfg.uri) THEN [r EXCEPT !.pc = "d_send", !.uri = r.cfg.uri]
    ELSE IF r.cfg.upload THEN [r EXCEPT !.pc = "d_upload", !.uri = r.cfg.uri]
    ELSE Exit1([r EXCEPT !.uri = r.cfg.uri])

\* let metadataUri = TOKEN_METADATA.uri; then the upload branch or the
\* check of the provided URI
AfterMintCheck(r) ==
    IF r.cfg.upload THEN [r EXCEPT !.pc = "d_upload", !.uri = r.cfg.uri]
    ELSE IF MetadataUriRejected(r.cfg.uri) THEN Exit1([r EXCEPT !.uri = r.cfg.uri])
    ELSE [r EXCEPT !.pc = "d_send", !.uri = r.cfg.uri]

\* a check that goes on whatever the read returned
MintCheckedIgnored(r, exists) ==
    AfterMintCheck([r EXCEPT !.seen = IF exists THEN "exists" ELSE "absent"])

\* if (!mintAccount.exists) { ...; process.exit(1) }, else the run goes on
MintChecked(r, exists) ==
    IF ~exists THEN Exit1([r EXCEPT !.seen = "absent"])
    ELSE AfterMintCheck([r EXCEPT !.seen = "exists", !.out = @ \o <<"mint-exists">>])

\* the inner catch: "Could not verify mint account (will proceed anyway)"
MintUnverified(r) ==
    AfterMintCheck([r EXCEPT !.out = @ \o <<"could-not-verify">>])

\* the inner try block around umi.rpc.getAccount(mint)
DGetAccount(p) ==
    /\ run[p].pc = "d_getAccount"
    /\ \/ run' = [run EXCEPT ![p] =
              MintChecked(Advance(@, "d_getAccount", Entry("rpc.getAccount", "ok")),
                          ledger.mint[run[p].mint].exists)]
       \/ run' = [run EXCEPT ![p] =
              MintUnverified(Advance(@, "d_getAccount", Entry("rpc.getAccount", "fail")))]
    /\ UNCHANGED <<keyFile, ledger, started, ledger0>>

DUpload(p) ==
    /\ run[p].pc = "d_upload"
    /\ \/ run' = [run EXCEPT ![p] =
              [Advance(@, "d_send", Entry("uploadJson", "ok"))
                 EXCEPT !.uri = UploadedUri(run[p].script)]]
       \/ run' = [run EXCEPT ![p] = Caught(@, Entry("uploadJson", "fail"), "generic")]
    /\ UNCHANGED <<keyFile, ledger, started, ledger0>>

\* the message of the error a rejected metadata creation carries: it names
\* the NFT token standard when the mint already has NFT metadata
MetadataError(L, mint, o) ==
    IF /\ o.processed
       /\ ~o.applied
       /\ \A i \in DOMAIN o.ixs : CanPay(L, o.ixs[i].authority)
       /\ L.meta[mint].kind = "nft"
    THEN "pnft" ELSE "generic"

DSettle(p, o) ==
    Settle(p, o, "sendAndConfirm", "end", <<"success">>,
           MetadataError(ledger, run[p].mint, o))

DSend(p) ==
    /\ run[p].pc = "d_send"
    /\ \E how \in TxHows :
         DSettle(p, Submit(ledger,
                           MetadataInstructions(run[p].key, run[p].mint, run[p].uri), how))
    /\ UNCHANGED <<keyFile, started, ledger0>>

(***************************************************************************)
(* nft_image.ts                                                            *)
(***************************************************************************)
GReadFile(p) ==
    /\ run[p].pc = "g_readFile"
    /\ \/ run' = [run EXCEPT ![p] = Advance(@, "g_upload", Entry("readFile", "ok"))]
       \/ run' = [run EXCEPT ![p] = Caught(@, Entry("readFile", "fail"), "generic")]
    /\ UNCHANGED <<keyFile, ledger, started, ledger0>>

GUpload(p) ==
    /\ run[p].pc = "g_upload"
    /\ \/ run' = [run EXCEPT ![p] =
              Finish([Advance(@, "end", Entry("upload", "ok"))
                        EXCEPT !.uri = UploadedUri(run[p].script)],
                     "success", <<"success">>)]
       \/ run' = [run EXCEPT ![p] = Caught(@, Entry("upload", "fail"), "generic")]
    /\ UNCHANGED <<keyFile, ledger, started, ledger0>>

(***************************************************************************)
(* nft_metadata.ts                                                         *)
(***************************************************************************)
\* a check of the length alone
ImageUriRejectedByLength(u) == Len(u) < 10

\* IMAGE_URI.includes("<PASTE") || IMAGE_URI.length < 10
ImageUriRejected(u) == Includes(u, PASTE) \/ Len(u) < 10

NValidate(p) ==
    /\ run[p].pc = "n_validate"
    /\ run' = [run EXCEPT ![p] =
            IF ImageUriRejected(@.cfg.uri) THEN Exit1(@)
            ELSE [@ EXCEPT !.pc = "n_upload"]]
    /\ UNCHANGED <<keyFile, ledger, started, ledger0>>

NUpload(p) ==
    /\ run[p].pc = "n_upload"
    /\ \/ run' = [run EXCEPT ![p] =
              Finish([Advance(@, "end", Entry("uploadJson", "ok"))
                        EXCEPT !.uri = UploadedUri(run[p].script)],
                     "success", <<"success">>)]
       \/ run' = [run EXCEPT ![p] = Caught(@, Entry("uploadJson", "fail"), "generic")]
    /\ UNCHANGED <<keyFile, ledger, started, ledger0>>

(***************************************************************************)
(* nft_mint.ts                                                             *)
(***************************************************************************)
\* METADATA_URI.includes("<PASTE") || METADATA_URI.length < 10
NftUriRejected(u) == Includes(u, PASTE) \/ Len(u) < 10

CreateNftInstructions(key, mint, uri) ==
    <<[ix |-> "createNft", mint |-> mint, authority |-> key, uri |-> uri]>>

FValidate(p) ==
    /\ run[p].pc = "f_validate"
    /\ run' = [run EXCEPT ![p] =
            IF NftUriRejected(@.cfg.uri) THEN Exit1(@)
            ELSE [@ EXCEPT !.pc = "f_send", !.mint = FreshMint(ledger),
                           !.uri = run[p].cfg.uri]]
    /\ UNCHANGED <<keyFile, ledger, started, ledger0>>

FSend(p) ==
    /\ run[p].pc = "f_send"
    /\ \E how \in TxHows :
         Settle(p, Submit(ledger, CreateNftInstructions(run[p].key, run[p].mint, run[p].uri),
                          how),
                "sendAndConfirm", "end", <<"success">>, "generic")
    /\ UNCHANGED <<keyFile, started, ledger0>>

(***************************************************************************)
(* Initial states: a fresh checkout, and the ledger as earlier runs of     *)
(* keygen, airdrop, spl_init (or spl_init_metaplex) and spl_mint leave it. *)
(***************************************************************************)
Funded(lamports) == [EmptyLedger EXCEPT !.lamports[1] = lamports]

WithFeeMint == ProcessTransaction(Funded(AirdropAmount), SplInitInstructions(1, 1)).L

WithMinted ==
    ProcessTransaction(
        ProcessTransaction(WithFeeMint, CreateAtaInstructions(1, 1, 1)).L,
        MintToInstructions(1, 1)).L

WithStandardMint ==
    ProcessTransaction(Funded(AirdropAmount), CreateMintInstructions(1, 1)).L

\* the ledger as seventeen successful spl_mint runs leave it
WithMintedSeventeen ==
    [lamports |-> WithMinted.lamports,
     mint |-> [m \in MintAddrs |->
                 IF m = 1
                 THEN [exists |-> TRUE, program |-> WithMinted.mint[1].program,
                       space |-> WithMinted.mint[1].space,
                       feeInit |-> WithMinted.mint[1].feeInit,
                       bps |-> WithMinted.mint[1].bps,
                       maxFee |-> WithMinted.mint[1].maxFee,
                       initialized |-> TRUE,
                       decimals |-> WithMinted.mint[1].decimals,
                       authority |-> WithMinted.mint[1].authority,
                       supply |-> BigMulSmall(TokensToMint, 17)]
                 ELSE WithMinted.mint[m]],
     ata |-> [a \in Owners \X MintAddrs |->
                IF a = <<1, 1>>
                THEN [exists |-> TRUE, amount |-> BigMulSmall(TokensToMint, 17),
                      withheld |-> <<>>]
                ELSE WithMinted.ata[a]],
     meta |-> WithMinted.meta,
     rounding |-> WithMinted.rounding]

Snapshots ==
    {<<0, EmptyLedger>>,
     <<1, Funded(BigSub(AirdropThreshold, <<1>>))>>,
     <<1, Funded(AirdropThreshold)>>,
     <<1, WithFeeMint>>,
     <<1, WithMinted>>,
     <<1, WithStandardMint>>}

Init ==
    /\ \E rounding \in {"floor", "ceil"} :
         \/ \E s \in Snapshots :
              /\ keyFile = s[1]
              /\ ledger = [s[2] EXCEPT !.rounding = rounding]
         \/ /\ keyFile = 1
            /\ ledger = [WithMintedSeventeen EXCEPT !.rounding = rounding]
    /\ ledger0 = ledger
    /\ run = [p \in Procs |-> Idle]
    /\ started = 0

Next ==
    \E p \in Procs :
        \/ StartRun(p)
        \/ Crash(p)
        \/ KgWrite(p)
        \/ LoadWallet(p)
        \/ AGetBalance(p)
        \/ ARequest(p)
        \/ FaucetLand(p)
        \/ ABlockhash(p)
        \/ AConfirm(p)
        \/ AGetBalance2(p)
        \/ IRent(p)
        \/ ISend(p)
        \/ XCreateMint(p)
        \/ MGetAccountInfo(p)
        \/ MCreateAta(p)
        \/ MMintTo(p)
        \/ TGetAccountInfo(p)
        \/ TCreateAta(p)
        \/ TTransfer(p)
        \/ TGetAccount(p)
        \/ DValidate(p)
        \/ DGetAccount(p)
        \/ DUpload(p)
        \/ DSend(p)
        \/ GReadFile(p)
        \/ GUpload(p)
        \/ NValidate(p)
        \/ NUpload(p)
        \/ FValidate(p)
        \/ FSend(p)

Spec == Init /\ [][Next]_vars

(***************************************************************************)
(* What the runs did, read from their logs.                                *)
(***************************************************************************)
Entries(p) == {run[p].log[i] : i \in DOMAIN run[p].log}

\* the log positions at which run p submitted a transaction
TxAt(p) == {i \in DOMAIN run[p].log : run[p].log[i].ixs # <<>>}

\* the log positions at which run p submitted instruction ix
IxAt(p, ix) ==
    {i \in DOMAIN run[p].log :
        \E k \in DOMAIN run[p].log[i].ixs : run[p].log[i].ixs[k].ix = ix}

Printed(p) == {run[p].out[i] : i \in DOMAIN run[p].out}

Names(ixs) == [k \in DOMAIN ixs |-> ixs[k].ix]

\* fee = min(floor(A * B / 10000), M), said without a division
IsCappedFloor(fee, A, B, M) ==
    /\ BigLe(fee, M)
    /\ BigLe(BigMulSmall(fee, 10000), BigMul(A, BigFromNat(B)))
    /\ \/ fee = M
       \/ BigLt(BigMul(A, BigFromNat(B)), BigMulSmall(BigAdd(fee, <<1>>), 10000))

RECURSIVE IsScaled(_, _, _)
\* A = tokens * 10^decimals, said digit by digit: A is tokens followed by
\* `decimals` zeros
IsScaled(A, tokens, decimals) ==
    IF decimals = 0 THEN A = BigFromNat(tokens)
    ELSE /\ BigMulSmall(BigDivSmall(A, 10), 10) = A
         /\ IsScaled(BigDivSmall(A, 10), tokens, decimals - 1)

Shipped(c) ==
    /\ c.amount = 100 /\ c.decimals = 9 /\ c.bps = 100
    /\ c.maxFee = <<0, 0, 10>>

(***************************************************************************)
(* C1.  In the Fee-Aware Transfer, for every amount A in base units        *)
(* (tokens x 10^decimals), rate B in basis points and cap M, the fee       *)
(* declared in the transfer instruction is min(floor(A*B/10000), M); with  *)
(* the shipped constants (100 tokens, 9 decimals, B = 100, M = 10^9) the   *)
(* declared fee is exactly 10^9, and there the uncapped value equals the   *)
(* cap.                                                                    *)
(***************************************************************************)
C1_DeclaredFee ==
    \A p \in Procs : \A e \in Entries(p) :
        e.op = "transferCheckedWithFee" =>
            /\ IsScaled(e.ixs[1].amount, run[p].cfg.amount, run[p].cfg.decimals)
            /\ IsCappedFloor(e.ixs[1].fee, e.ixs[1].amount, run[p].cfg.bps,
                             run[p].cfg.maxFee)
            /\ Shipped(run[p].cfg) =>
                  /\ e.ixs[1].amount = <<0, 0, 1000>>
                  /\ e.ixs[1].fee = <<0, 0, 10>>
                  /\ BigMulSmall(e.ixs[1].fee, 10000) =
                        BigMul(e.ixs[1].amount, BigFromNat(run[p].cfg.bps))

\* a run with the shipped constants has had its transfer applied by the ledger
C1_Witness ==
    \E p \in Procs : \E e \in Entries(p) :
        /\ e.op = "transferCheckedWithFee"
        /\ Shipped(run[p].cfg)
        /\ e.applied
        /\ e.ixs[1].fee = <<0, 0, 10>>

(***************************************************************************)
(* C2.  In the Balance Funder, when the balance read at the start of the   *)
(* run is at least 500,000,000 lamports (boundary included), the run       *)
(* issues no airdrop request and no other network mutation and ends; a     *)
(* run against a funded key leaves the ledger as it was.                   *)
(***************************************************************************)
FundedAtStart(p) ==
    /\ run[p].script = "airdrop"
    /\ \E e \in Entries(p) : e.op = "getBalance" /\ e.res = "ok"
    /\ BigLe(<<0, 0, 5>>, run[p].balance)

C2_State ==
    \A p \in Procs :
        FundedAtStart(p) =>
            /\ run[p].pc = "end"
            /\ run[p].result = "returned"
            /\ run[p].drop = "none"
            /\ \A e \in Entries(p) : e.op \in {"loadWallet", "getBalance"}
            /\ TxAt(p) = {}
            /\ started = 1 => ledger = ledger0

\* the step of a run that reads a funded balance ends the run and changes
\* nothing on the ledger
C2_Step ==
    \A p \in Procs :
        /\ run[p].script = "airdrop"
        /\ run[p].pc = "a_getBalance"
        /\ BigLe(<<0, 0, 5>>, ledger.lamports[run[p].key])
        /\ run'[p] # run[p]
        => /\ ledger' = ledger
           /\ run'[p].pc = "end"
           /\ run'[p].drop = "none"

C2_NoAirdropWhenFunded == []C2_State /\ [][C2_Step]_vars

\* a run that read exactly the threshold has returned
C2_Witness ==
    \E p \in Procs :
        /\ FundedAtStart(p)
        /\ run[p].balance = <<0, 0, 5>>
        /\ run[p].result = "returned"

(***************************************************************************)
(* C3.  Every transaction the fee-enabled Mint Initializer submits holds,  *)
(* in this order, account creation, transfer-fee-extension initialization  *)
(* and mint initialization; the ledger program rejects the transaction     *)
(* with the last two exchanged.                                            *)
(***************************************************************************)
Exchanged(ixs) == <<ixs[1], ixs[3], ixs[2]>>

C3_FeeConfigBeforeMint ==
    \A p \in Procs :
        /\ run[p].script = "spl_init" =>
              \A i \in TxAt(p) :
                  Names(run[p].log[i].ixs) =
                      <<"createAccount", "initializeTransferFeeConfig", "initializeMint">>
        /\ run[p].pc = "i_send" =>
              /\ Names(SplInitInstructions(run[p].mint, run[p].key)) =
                    <<"createAccount", "initializeTransferFeeConfig", "initializeMint">>
              /\ ~ProcessTransaction(
                      ledger, Exchanged(SplInitInstructions(run[p].mint, run[p].key))).ok

\* the ledger accepted the initializer's transaction, which it rejects
\* with the two initializations exchanged
C3_Witness ==
    \E p \in Procs : \E i \in TxAt(p) :
        /\ run[p].script = "spl_init"
        /\ run[p].log[i].applied
        /\ run[p].result = "success"
        /\ started = 1
        /\ ledger.mint[run[p].mint].feeInit
        /\ ~ProcessTransaction(ledger0, Exchanged(run[p].log[i].ixs)).ok

(***************************************************************************)
(* C4.  In the Token Minter, when the holding account exists at the time   *)
(* the run reads it, the run submits no account creation and exactly the   *)
(* mint-increase; two such runs submit no creation and two mint-increases. *)
(***************************************************************************)
SawAccount(p) == run[p].script = "spl_mint" /\ run[p].seen = "exists"

Completed(p) == run[p].pc = "end" /\ run[p].result \in {"success", "caught"}

C4_SkipsCreation ==
    /\ \A p \in Procs :
          SawAccount(p) =>
              /\ IxAt(p, "createAssociatedTokenAccount") = {}
              /\ Cardinality(IxAt(p, "mintTo")) <= 1
              /\ TxAt(p) = IxAt(p, "mintTo")
              /\ Completed(p) => Cardinality(IxAt(p, "mintTo")) = 1
    /\ (\A p \in Procs : SawAccount(p) /\ Completed(p)) =>
          /\ \A p \in Procs : IxAt(p, "createAssociatedTokenAccount") = {}
          /\ Cardinality(IxAt("p1", "mintTo")) + Cardinality(IxAt("p2", "mintTo")) = 2

\* two runs that both found the account have both minted
C4_Witness ==
    \A p \in Procs :
        /\ SawAccount(p)
        /\ run[p].result = "success"
        /\ \E i \in IxAt(p, "mintTo") : run[p].log[i].applied

(***************************************************************************)
(* C5.  In the Metadata Publisher with the upload disabled, an empty or    *)
(* placeholder URI makes the run end with a validation error before any    *)
(* network call (no RPC read, no upload, no transaction).                  *)
(***************************************************************************)
PlaceholderUri(u) == u = <<>> \/ Includes(u, PASTE)

C5_FailFastBeforeNetwork ==
    \A p \in Procs :
        /\ run[p].script = "spl_metadata"
        /\ ~run[p].cfg.upload
        /\ PlaceholderUri(run[p].cfg.uri)
        => /\ \A e \in Entries(p) : e.op = "loadWallet"
           /\ run[p].pc = "end" /\ run[p].result \notin {"crashed", "uncaught"} =>
                 run[p].result = "exit1"

(***************************************************************************)
(* C6.  In the Fee-Aware Transfer, when the fee the ledger program         *)
(* computes from the mint's fee configuration differs from the fee the     *)
(* instruction declares, the transaction is rejected: no balance and no    *)
(* withheld amount changes, and the run prints its error line and no       *)
(* success line.                                                           *)
(***************************************************************************)
FeeMismatch(L, ix) == ix.fee # LedgerFee(L, L.mint[ix.mint], ix.amount)

C6_State ==
    \A p \in Procs : \A e \in Entries(p) :
        e.op = "transferCheckedWithFee" /\ FeeMismatch(ledger, e.ixs[1]) =>
            /\ ~e.applied
            /\ e.res = "fail"
            /\ run[p].result = "caught"
            /\ "oops" \in Printed(p)
            /\ "success" \notin Printed(p)

\* the step that submits a transfer with a fee the ledger does not compute
C6_Step ==
    \A p \in Procs :
        /\ run[p].pc = "t_transfer"
        /\ run'[p].pc # "t_transfer"
        /\ run'[p].result # "crashed"
        /\ FeeMismatch(ledger, run'[p].log[Len(run'[p].log)].ixs[1])
        => /\ ledger'.ata = ledger.ata
           /\ ledger' = ledger
           /\ run'[p].result = "caught"

C6_MismatchRejected == []C6_State /\ [][C6_Step]_vars

\* the ledger processed and rejected a transfer that it accepts with the
\* fee it computes itself
C6_Witness ==
    \E p \in Procs : \E e \in Entries(p) :
        /\ e.op = "transferCheckedWithFee"
        /\ e.processed /\ ~e.applied
        /\ FeeMismatch(ledger, e.ixs[1])
        /\ ProcessTransaction(
               ledger,
               <<[e.ixs[1] EXCEPT !.fee =
                     LedgerFee(ledger, ledger.mint[e.ixs[1].mint], e.ixs[1].amount)]>>).ok
        /\ run[p].result = "caught"

(***************************************************************************)
(* C7.  As stated: in every Metadata Publisher run that uploads a          *)
(* document or submits the metadata-creation instruction, a preceding      *)
(* read confirmed that the mint account exists; a run in which existence   *)
(* was not confirmed (account absent, or the read failed) does neither.    *)
(***************************************************************************)
UploadsOrSubmits(p) ==
    \E e \in Entries(p) : e.op \in {"uploadJson", "sendAndConfirm"}

C7_ConfirmedBeforeProceeding ==
    \A p \in Procs :
        run[p].script = "spl_metadata" /\ UploadsOrSubmits(p) => run[p].seen = "exists"

(***************************************************************************)
(* C7, amended.  In every Metadata Publisher run that uploads or submits,  *)
(* a read of the mint account came first and did not report the account    *)
(* absent; a run whose read reported it absent does neither and exits      *)
(* with a validation error; a run whose read failed prints that it could   *)
(* not verify the mint and goes on.                                        *)
(***************************************************************************)
ReadAt(p) == {i \in DOMAIN run[p].log : run[p].log[i].op = "rpc.getAccount"}

C7_AbsentMintStops ==
    \A p \in Procs :
        run[p].script = "spl_metadata" =>
            /\ \A i \in DOMAIN run[p].log :
                  run[p].log[i].op \in {"uploadJson", "sendAndConfirm"} =>
                      /\ \E j \in ReadAt(p) : j < i
                      /\ run[p].seen # "absent"
            /\ run[p].seen = "absent" =>
                  /\ ~UploadsOrSubmits(p)
                  /\ run[p].pc = "end" /\ run[p].result = "exit1"
            /\ run[p].seen = "exists" =>
                  \E j \in ReadAt(p) : run[p].log[j].res = "ok"
            /\ \A j \in ReadAt(p) :
                  run[p].log[j].res = "fail" =>
                      /\ run[p].seen = "unknown"
                      /\ "could-not-verify" \in Printed(p)
                      /\ j = Len(run[p].log) => run[p].result # "caught"

\* a run whose read failed has created the metadata account
C7_Witness ==
    \E p \in Procs :
        /\ run[p].script = "spl_metadata"
        /\ \E j \in ReadAt(p) : run[p].log[j].res = "fail"
        /\ \E e \in Entries(p) : e.op = "sendAndConfirm" /\ e.applied
        /\ run[p].result = "success"

(***************************************************************************)
(* C8.  In the Token Minter, account creation and minting are two          *)
(* transactions.  When a run stops after its creation transaction is       *)
(* confirmed and before it submits the mint-increase, the ledger holds the *)
(* holding account with a zero balance; a later complete run skips the     *)
(* creation, mints once, and leaves the ledger as one uninterrupted run    *)
(* leaves it.                                                              *)
(***************************************************************************)
\* the ledger L with the holding account of k for mint m created, empty
CreatedOnly(L, k, m) ==
    [L EXCEPT !.ata[<<k, m>>] = [exists |-> TRUE, amount |-> <<>>, withheld |-> <<>>]]

\* the ledger L with that account created and 10^18 base units minted to it
MintedOnce(L, k, m) ==
    [L EXCEPT !.ata[<<k, m>>] =
                  [exists |-> TRUE, amount |-> <<0, 0, 0, 0, 100>>, withheld |-> <<>>],
              !.mint[m].supply = BigAdd(@, <<0, 0, 0, 0, 100>>)]

StoppedAfterCreation(p) ==
    /\ run[p].script = "spl_mint"
    /\ run[p].result = "crashed"
    /\ Len(run[p].log) = 3
    /\ Names(run[p].log[3].ixs) = <<"createAssociatedTokenAccount">>
    /\ run[p].log[3].res = "ok"

Resumed ==
    /\ started = 2
    /\ StoppedAfterCreation("p1")
    /\ run["p2"].script = "spl_mint"
    /\ run["p2"].mint = run["p1"].mint
    /\ run["p2"].result = "success"

Uninterrupted ==
    /\ started = 1
    /\ run["p1"].script = "spl_mint"
    /\ run["p1"].seen = "absent"
    /\ run["p1"].result = "success"

C8_ResumeAfterCreation ==
    /\ \A p \in Procs :
          run[p].script = "spl_mint" =>
              /\ \A i \in TxAt(p) : Len(run[p].log[i].ixs) = 1
              /\ \A i \in IxAt(p, "createAssociatedTokenAccount") :
                    \A j \in IxAt(p, "mintTo") : i < j
    /\ started = 1 /\ StoppedAfterCreation("p1") =>
          ledger = CreatedOnly(ledger0, run["p1"].key, run["p1"].mint)
    /\ Resumed =>
          /\ run["p2"].seen = "exists"
          /\ IxAt("p2", "createAssociatedTokenAccount") = {}
          /\ Cardinality(IxAt("p2", "mintTo")) = 1
          /\ ledger = MintedOnce(ledger0, run["p1"].key, run["p1"].mint)
    /\ Uninterrupted =>
          ledger = MintedOnce(ledger0, run["p1"].key, run["p1"].mint)

\* a run stopped after its creation and a second run completed the minting
C8_Witness ==
    /\ Resumed
    /\ ledger = MintedOnce(ledger0, run["p1"].key, run["p1"].mint)
    /\ ledger0.ata[<<run["p1"].key, run["p1"].mint>>] = NoAta

(***************************************************************************)
(* C9.  As stated: every run of every script submits zero or one           *)
(* transactions to the ledger.                                             *)
(***************************************************************************)
C9_AtMostOneTransaction ==
    \A p \in Procs : Cardinality(TxAt(p)) <= 1

(***************************************************************************)
(* C9, amended.  Every run submits at most two transactions.  Only the     *)
(* Token Minter and the Fee-Aware Transfer submit two, and only when the   *)
(* holding account they read was absent: first its creation, then, once    *)
(* that is confirmed, the mint-increase or the transfer.  The Key          *)
(* Generator, the Balance Funder and the two NFT upload steps submit none  *)
(* (the Funder asks the faucet at most once); every other run submits at   *)
(* most one.                                                               *)
(***************************************************************************)
C9_AtMostTwoTransactions ==
    \A p \in Procs :
        /\ Cardinality(TxAt(p)) <= 2
        /\ run[p].script \in {"none", "keygen", "airdrop", "nft_image", "nft_metadata"} =>
              TxAt(p) = {}
        /\ Cardinality({i \in DOMAIN run[p].log : run[p].log[i].op = "requestAirdrop"}) <= 1
        /\ run[p].script \in {"spl_init", "spl_init_metaplex", "spl_metadata", "nft_mint"} =>
              Cardinality(TxAt(p)) <= 1
        /\ Cardinality(TxAt(p)) = 2 =>
              /\ run[p].script \in {"spl_mint", "spl_transfer"}
              /\ run[p].seen = "absent"
              /\ \E i, j \in TxAt(p) :
                    /\ i < j
                    /\ Names(run[p].log[i].ixs) = <<"createAssociatedTokenAccount">>
                    /\ run[p].log[i].res = "ok"
                    /\ Names(run[p].log[j].ixs) \in
                          {<<"mintTo">>, <<"transferCheckedWithFee">>}

\* a run has had two transactions applied by the ledger
C9_Witness ==
    \E p \in Procs :
        /\ Cardinality(TxAt(p)) = 2
        /\ \A i \in TxAt(p) : run[p].log[i].applied
        /\ run[p].result = "success"

(***************************************************************************)
(* C10.  As stated: every script wraps its body in a single catch-all;     *)
(* for every script and every step that can fail, a failure is caught and  *)
(* logged by that script's handler, no later step of the run is executed,  *)
(* and the run then ends.                                                  *)
(***************************************************************************)
HandlerLines == {"oops", "error"}

CaughtAndLast(p, i) ==
    /\ i = Len(run[p].log)
    /\ run[p].pc = "end"
    /\ run[p].result = "caught"
    /\ Printed(p) \cap HandlerLines # {}

C10_SingleCatchAll ==
    \A p \in Procs : \A i \in DOMAIN run[p].log :
        run[p].log[i].res = "fail" => CaughtAndLast(p, i)

(***************************************************************************)
(* C10, amended.  Every script but the Key Generator wraps its async body  *)
(* in one catch-all: a failure of a step inside it is caught and logged    *)
(* by the script's handler, no later step is executed and the run ends.    *)
(* Three failures are not handled so: the Key Generator's file write and   *)
(* the loading of the key file, which no handler catches (the run ends     *)
(* with the uncaught error, no handler line printed), and the Metadata     *)
(* Publisher's read of the mint account, which an inner handler catches    *)
(* and after which the run goes on.                                        *)
(***************************************************************************)
C10_CatchAllWithExceptions ==
    \A p \in Procs :
        /\ run[p].script = "keygen" => run[p].result # "caught"
        /\ \A i \in DOMAIN run[p].log :
              run[p].log[i].res = "fail" =>
                  CASE run[p].log[i].op \in {"writeFile", "loadWallet"} ->
                          /\ i = Len(run[p].log)
                          /\ run[p].pc = "end"
                          /\ run[p].result = "uncaught"
                          /\ Printed(p) \cap HandlerLines = {}
                    [] run[p].log[i].op = "rpc.getAccount" ->
                          /\ "could-not-verify" \in Printed(p)
                          /\ i = Len(run[p].log) => run[p].result # "caught"
                    [] OTHER -> CaughtAndLast(p, i)

\* a failed upload was caught by the handler, which ended the run
C10_Witness ==
    \E p \in Procs :
        /\ run[p].log # <<>>
        /\ run[p].log[Len(run[p].log)].op = "uploadJson"
        /\ run[p].log[Len(run[p].log)].res = "fail"
        /\ CaughtAndLast(p, Len(run[p].log))

(***************************************************************************)
(* C11.  As stated: no error is retried; in one run each network mutation  *)
(* (airdrop request, account creation, mint-increase, transfer, upload,    *)
(* metadata or NFT creation) is attempted at most once, and after any      *)
(* failure the run makes no further network mutation; a failed faucet      *)
(* request gives one logged error, the manual fallback instruction and no  *)
(* second request.                                                         *)
(***************************************************************************)
\* the log positions at which run p attempted a network mutation
MutationAt(p) ==
    {i \in DOMAIN run[p].log :
        \/ run[p].log[i].op \in {"requestAirdrop", "upload", "uploadJson"}
        \/ run[p].log[i].ixs # <<>>}

\* what the mutation at position i is: the operation and its instructions
MutationKind(p, i) == <<run[p].log[i].op, Names(run[p].log[i].ixs)>>

EachMutationOnce(p) ==
    \A i, j \in MutationAt(p) : i # j => MutationKind(p, i) # MutationKind(p, j)

FaucetFailureReported(p) ==
    \A i \in DOMAIN run[p].log :
        run[p].log[i].op = "requestAirdrop" /\ run[p].log[i].res = "fail" =>
            /\ i = Len(run[p].log)
            /\ Cardinality({j \in DOMAIN run[p].log :
                                run[p].log[j].op = "requestAirdrop"}) = 1
            /\ run[p].out = <<"oops", "manual-airdrop">>
            /\ run[p].result = "caught"
            /\ run[p].drop = "none"

C11_NoMutationAfterAnyFailure ==
    \A p \in Procs :
        /\ EachMutationOnce(p)
        /\ FaucetFailureReported(p)
        /\ \A i \in DOMAIN run[p].log :
              run[p].log[i].res = "fail" => \A j \in MutationAt(p) : j <= i

(***************************************************************************)
(* C11, amended.  No error is retried: in one run each network mutation    *)
(* is attempted at most once, and after a failure of any step other than   *)
(* the Metadata Publisher's read of the mint account the run makes no      *)
(* further network mutation (after that read fails, the run still uploads  *)
(* and submits, each once, and the read is not repeated); a failed faucet  *)
(* request gives one logged error, the manual fallback instruction and no  *)
(* second request.                                                         *)
(***************************************************************************)
C11_NoRetry ==
    \A p \in Procs :
        /\ EachMutationOnce(p)
        /\ FaucetFailureReported(p)
        /\ Cardinality(ReadAt(p)) <= 1
        /\ \A i \in DOMAIN run[p].log :
              run[p].log[i].res = "fail" /\ run[p].log[i].op # "rpc.getAccount" =>
                  /\ i = Len(run[p].log)
                  /\ run[p].pc = "end"
                  /\ \A j \in MutationAt(p) : j <= i

\* the faucet refused the request: one error, the fallback, nothing more
C11_Witness ==
    \E p \in Procs :
        /\ run[p].script = "airdrop"
        /\ run[p].log # <<>>
        /\ run[p].log[Len(run[p].log)].op = "requestAirdrop"
        /\ run[p].log[Len(run[p].log)].res = "fail"
        /\ run[p].out = <<"oops", "manual-airdrop">>
        /\ ledger = ledger0

(***************************************************************************)
(* C12.  In the Balance Funder, when the first balance read is below the   *)
(* threshold the run requests exactly one credit, of 2 SOL, and waits      *)
(* until the ledger has settled that transaction; the second balance read  *)
(* and the success line come only after the confirmation wait returned.    *)
(***************************************************************************)
OpsAt(p, op) == {i \in DOMAIN run[p].log : run[p].log[i].op = op}

OkAt(p, op) == {i \in OpsAt(p, op) : run[p].log[i].res = "ok"}

C12_AirdropConfirmedFirst ==
    \A p \in Procs :
        run[p].script = "airdrop" =>
            /\ Cardinality(OpsAt(p, "requestAirdrop")) <= 1
            /\ OpsAt(p, "requestAirdrop") # {} =>
                  /\ OkAt(p, "getBalance") # {}
                  /\ BigLt(run[p].balance, <<0, 0, 5>>)
            /\ run[p].pc \in {"a_request", "a_blockhash", "a_confirm", "a_getBalance2"} =>
                  BigLt(run[p].balance, <<0, 0, 5>>)
            /\ run[p].pc \in {"a_blockhash", "a_confirm", "a_getBalance2"} =>
                  Cardinality(OkAt(p, "requestAirdrop")) = 1
            /\ OkAt(p, "confirmTransaction") # {} =>
                  /\ run[p].drop \in {"landed", "failed"}
                  /\ \E i \in OkAt(p, "requestAirdrop") :
                        \A j \in OkAt(p, "confirmTransaction") : i < j
            /\ \A k \in OpsAt(p, "getBalance") :
                  k > 2 => \E j \in OkAt(p, "confirmTransaction") : j < k
            /\ "success" \in Printed(p) =>
                  /\ OkAt(p, "confirmTransaction") # {}
                  /\ run[p].log[Len(run[p].log)].op = "getBalance"
                  /\ run[p].drop = "landed" =>
                        run[p].newBalance = BigAdd(run[p].balance, <<0, 0, 20>>)

\* a key one lamport short of the threshold was credited 2 SOL
C12_Witness ==
    \E p \in Procs :
        /\ run[p].script = "airdrop"
        /\ run[p].result = "success"
        /\ run[p].drop = "landed"
        /\ run[p].balance = <<9999, 9999, 4>>
        /\ run[p].newBalance = <<9999, 9999, 24>>

(***************************************************************************)
(* C13.  Within one run at most one network operation is outstanding:      *)
(* each balance query, account read, upload, transaction submission and    *)
(* confirmation wait has completed before the next one starts, so the      *)
(* operations appear in program order.                                     *)
(***************************************************************************)
\* the awaited operations of a script in the order of its text, for the
\* branch the run took
ProgramOrder(r) ==
    CASE r.script = "keygen" -> <<"writeFile">>
      [] r.script = "airdrop" ->
            <<"loadWallet", "getBalance", "requestAirdrop", "getLatestBlockhash",
              "confirmTransaction", "getBalance">>
      [] r.script = "spl_init" ->
            <<"loadWallet", "getMinimumBalanceForRentExemption",
              "sendAndConfirmTransaction">>
      [] r.script = "spl_init_metaplex" -> <<"loadWallet", "createMint">>
      [] r.script = "spl_mint" ->
            <<"loadWallet", "getAccountInfo">>
                \o (IF r.seen = "absent" THEN <<"sendAndConfirmTransaction">> ELSE <<>>)
                \o <<"mintTo">>
      [] r.script = "spl_transfer" ->
            <<"loadWallet", "getAccountInfo">>
                \o (IF r.seen = "absent" THEN <<"sendAndConfirmTransaction">> ELSE <<>>)
                \o <<"transferCheckedWithFee", "getAccount">>
      [] r.script = "spl_metadata" ->
            <<"loadWallet", "rpc.getAccount">>
                \o (IF r.cfg.upload THEN <<"uploadJson">> ELSE <<>>)
                \o <<"sendAndConfirm">>
      [] r.script = "nft_image" -> <<"loadWallet", "readFile", "upload">>
      [] r.script = "nft_metadata" -> <<"loadWallet", "uploadJson">>
      [] r.script = "nft_mint" -> <<"loadWallet", "sendAndConfirm">>
      [] OTHER -> <<>>

C13_ProgramOrder ==
    \A p \in Procs :
        /\ Len(run[p].log) <= Len(ProgramOrder(run[p]))
        /\ \A i \in DOMAIN run[p].log :
              /\ run[p].log[i].op = ProgramOrder(run[p])[i]
              /\ i < Len(run[p].log) =>
                    \/ run[p].log[i].res = "ok"
                    \/ run[p].log[i].op = "rpc.getAccount"
        /\ run[p].drop = "pending" =>
              /\ OkAt(p, "confirmTransaction") = {}
              /\ OpsAt(p, "getBalance") = {2}
              /\ run[p].pc \in {"a_blockhash", "a_confirm", "end"}
              /\ run[p].pc = "end" => run[p].result \in {"caught", "crashed"}

\* a transfer run made its five operations, each after the one before
C13_Witness ==
    \E p \in Procs :
        /\ run[p].script = "spl_transfer"
        /\ [i \in DOMAIN run[p].log |-> run[p].log[i].op] =
              <<"loadWallet", "getAccountInfo", "sendAndConfirmTransaction",
                "transferCheckedWithFee", "getAccount">>
        /\ \A e \in Entries(p) : e.res = "ok"
        /\ run[p].result = "success"

(***************************************************************************)
(* C14.  The Mint Initializer is all-or-nothing: after any run either the  *)
(* mint account exists with its transfer-fee configuration and the mint    *)
(* initialized, or none of the three effects is on the ledger; a failing   *)
(* instruction leaves no created but uninitialized mint account.           *)
(***************************************************************************)
\* the mint account the initializer's three instructions produce
InitializedFeeMint(mt, key) ==
    /\ mt.exists /\ mt.program = "token2022" /\ mt.space = "fee"
    /\ mt.feeInit /\ mt.bps = 100 /\ mt.maxFee = <<0, 0, 10>>
    /\ mt.initialized /\ mt.decimals = 9 /\ mt.authority = key
    /\ mt.supply = <<>>

NoEffect(mt) ==
    /\ ~mt.exists /\ ~mt.feeInit /\ ~mt.initialized
    /\ mt.program = "none" /\ mt.space = "none"

C14_AllOrNothing ==
    /\ \A m \in MintAddrs :
          ledger.mint[m].exists =>
              /\ ledger.mint[m].initialized
              /\ ledger.mint[m].program = "token2022" => ledger.mint[m].feeInit
    /\ \A p \in Procs :
          run[p].script = "spl_init" /\ run[p].mint # 0 =>
              /\ \/ InitializedFeeMint(ledger.mint[run[p].mint], run[p].key)
                 \/ NoEffect(ledger.mint[run[p].mint])
              /\ ledger.mint[run[p].mint].exists <=>
                    \E i \in TxAt(p) : run[p].log[i].applied
              /\ run[p].pc = "i_send" =>
                    ProcessTransaction(
                        ledger,
                        Exchanged(SplInitInstructions(run[p].mint, run[p].key))).L = ledger

\* the ledger processed the initializer's transaction, rejected it, and
\* holds nothing at the mint's address
C14_Witness ==
    \E p \in Procs : \E i \in TxAt(p) :
        /\ run[p].script = "spl_init"
        /\ run[p].log[i].processed /\ ~run[p].log[i].applied
        /\ NoEffect(ledger.mint[run[p].mint])
        /\ run[p].result = "caught"

(***************************************************************************)
(* C15.  The local key file is read-only after creation: once it exists    *)
(* no run of any script, a further Key Generator run included, changes     *)
(* its contents, so every later signing script loads the same keypair.     *)
(* Keys are numbered in the order of their generation: the file is absent  *)
(* (0) or holds the first key (1), and no run signs with another key.      *)
(***************************************************************************)
C15_KeyFileReadOnly ==
    /\ keyFile \in {0, 1}
    /\ \A p \in Procs : run[p].key \in {0, 1}

(***************************************************************************)
(* C16.  As stated: a run exits with status 1 only on a validation         *)
(* failure (placeholder or too-short mint address or URI, or mint account  *)
(* reported absent); every other failure is caught and the process ends    *)
(* with the normal exit status, as a successful run does.                  *)
(***************************************************************************)
Ended(p) == run[p].pc = "end" /\ run[p].result # "crashed"

\* the configuration or the mint read gives the run a reason to refuse
ValidationFailure(p) ==
    CASE run[p].script = "spl_metadata" ->
            \/ Includes(run[p].cfg.address, PASTE) \/ Len(run[p].cfg.address) < 32
            \/ run[p].seen = "absent"
            \/ ~run[p].cfg.upload /\ Len(run[p].cfg.uri) < 10
      [] run[p].script \in {"nft_metadata", "nft_mint"} ->
            Includes(run[p].cfg.uri, PASTE) \/ Len(run[p].cfg.uri) < 10
      [] OTHER -> FALSE

Failed(p) == \E e \in Entries(p) : e.res = "fail"

C16_ExitOneOnlyOnValidation ==
    \A p \in Procs :
        Ended(p) =>
            /\ ExitStatus(run[p].result) = 1 =>
                  ValidationFailure(p) /\ "validation-error" \in Printed(p)
            /\ Failed(p) => ExitStatus(run[p].result) = 0

(***************************************************************************)
(* C16, amended.  A run exits with status 1 on a validation failure        *)
(* (placeholder or too-short mint address or URI, or mint account reported *)
(* absent) and on an error that no handler catches (the Key Generator's    *)
(* file write, the loading of the key file); every failure inside a        *)
(* script's try block (RPC error, upload error, rejected transaction) is   *)
(* caught and the process ends with the normal exit status, as a           *)
(* successful run does.                                                    *)
(***************************************************************************)
UncaughtFailure(p) ==
    /\ run[p].log # <<>>
    /\ run[p].log[Len(run[p].log)].op \in {"writeFile", "loadWallet"}
    /\ run[p].log[Len(run[p].log)].res = "fail"

C16_ExitStatus ==
    \A p \in Procs :
        Ended(p) =>
            /\ ExitStatus(run[p].result) = 1 <=>
                  \/ "validation-error" \in Printed(p)
                  \/ UncaughtFailure(p)
            /\ "validation-error" \in Printed(p) =>
                  ValidationFailure(p) /\ ~UncaughtFailure(p)
            /\ Failed(p) /\ ~UncaughtFailure(p) /\ "validation-error" \notin Printed(p) =>
                  ExitStatus(run[p].result) = ExitStatus("success")
            /\ run[p].result = "caught" => ExitStatus(run[p].result) = 0

\* the mint account was reported absent and the run exited with status 1
C16_Witness ==
    \E p \in Procs :
        /\ Ended(p)
        /\ run[p].seen = "absent"
        /\ run[p].script = "spl_metadata"
        /\ "validation-error" \in Printed(p)
        /\ ExitStatus(run[p].result) = 1

(***************************************************************************)
(* C17.  In the Metadata Publisher the URI in the submitted                *)
(* metadata-creation instruction is the URI the upload returned when the   *)
(* upload is enabled and the operator's URI when it is disabled; with the  *)
(* upload enabled the operator's URI is never used, and a failed upload    *)
(* means that no instruction is submitted.                                 *)
(***************************************************************************)
C17_SubmittedUri ==
    \A p \in Procs :
        run[p].script = "spl_metadata" =>
            /\ \A i \in TxAt(p) :
                  /\ Names(run[p].log[i].ixs) = <<"createMetadataAccountV3">>
                  /\ IF run[p].cfg.upload
                     THEN /\ \E j \in OkAt(p, "uploadJson") : j < i
                          /\ run[p].log[i].ixs[1].uri = UploadedUri("spl_metadata")
                          /\ run[p].log[i].ixs[1].uri # run[p].cfg.uri
                     ELSE /\ OpsAt(p, "uploadJson") = {}
                          /\ run[p].log[i].ixs[1].uri = run[p].cfg.uri
                  /\ run[p].log[i].applied =>
                        ledger.meta[run[p].mint].uri = run[p].log[i].ixs[1].uri
            /\ OpsAt(p, "uploadJson") # {} /\ OkAt(p, "uploadJson") = {} =>
                  /\ TxAt(p) = {}
                  /\ run[p].result = "caught"

\* with the upload enabled and a usable operator URI configured, the
\* ledger holds the uploaded URI
C17_Witness ==
    \E p \in Procs : \E i \in TxAt(p) :
        /\ run[p].script = "spl_metadata"
        /\ run[p].cfg.upload
        /\ run[p].cfg.uri = UriValid
        /\ run[p].log[i].applied
        /\ ledger.meta[run[p].mint].uri = UploadedUri("spl_metadata")

(***************************************************************************)
(* C18.  A failed Metadata Publisher run prints exactly one of the two     *)
(* explanations, once: the NFT-versus-fungible explanation when the        *)
(* failure is a metadata creation the ledger rejected because the mint     *)
(* already carries NFT metadata (the error that names the                  *)
(* ProgrammableNonFungible standard), the generic troubleshooting list     *)
(* for every other failure; the step whose failure reached the handler is  *)
(* the last step of the run.                                               *)
(***************************************************************************)
Times(p, line) == Cardinality({i \in DOMAIN run[p].out : run[p].out[i] = line})

NftRejection(p) ==
    /\ run[p].log # <<>>
    /\ run[p].log[Len(run[p].log)].op = "sendAndConfirm"
    /\ run[p].log[Len(run[p].log)].processed
    /\ ~run[p].log[Len(run[p].log)].applied
    /\ CanPay(ledger, run[p].key)
    /\ ledger.meta[run[p].mint].kind = "nft"

C18_OneExplanation ==
    \A p \in Procs :
        run[p].script = "spl_metadata" =>
            /\ run[p].result = "caught" =>
                  /\ Times(p, "error") = 1
                  /\ Times(p, "nft-explanation") + Times(p, "troubleshooting") = 1
                  /\ Times(p, "nft-explanation") = 1 <=> NftRejection(p)
                  /\ Times(p, "success") = 0
                  /\ run[p].pc = "end"
                  /\ \A i \in DOMAIN run[p].log :
                        /\ run[p].log[i].res = "fail"
                        /\ run[p].log[i].op # "rpc.getAccount"
                        => i = Len(run[p].log)
            /\ run[p].result # "caught" =>
                  Times(p, "nft-explanation") + Times(p, "troubleshooting") = 0

\* the publisher pointed at the mint of a minted NFT ends with the NFT
\* explanation
C18_Witness ==
    \E p \in Procs :
        /\ run[p].script = "spl_metadata"
        /\ run[p].result = "caught"
        /\ NftRejection(p)
        /\ Times(p, "nft-explanation") = 1
        /\ Times(p, "troubleshooting") = 0

(***************************************************************************)
(* C19.  When a Fee-Aware Transfer of amount A with fee F succeeds, the    *)
(* sender's holding account has decreased by A, the recipient's spendable  *)
(* balance has increased by A - F and the recipient account's withheld     *)
(* amount has increased by F, so that A is conserved across the three and  *)
(* nothing else on the ledger moves; the script reads the recipient        *)
(* account only after the transfer is confirmed.                           *)
(***************************************************************************)
TransferConfirmed(p, i) ==
    /\ run[p].log[i].op = "transferCheckedWithFee"
    /\ run[p].log[i].res = "ok"

C19_State ==
    \A p \in Procs :
        run[p].script = "spl_transfer" =>
            /\ \A i \in DOMAIN run[p].log :
                  /\ TransferConfirmed(p, i) => run[p].log[i].applied
                  /\ run[p].log[i].op = "getAccount" =>
                        \E j \in 1..(i - 1) : TransferConfirmed(p, j)
            /\ "recipient-balance" \in Printed(p) => "success" \in Printed(p)
            /\ "success" \in Printed(p) <=>
                  \E i \in DOMAIN run[p].log : TransferConfirmed(p, i)

TransferSucceeds(p) ==
    /\ run[p].script = "spl_transfer"
    /\ Len(run'[p].log) = Len(run[p].log) + 1
    /\ run'[p].log[Len(run'[p].log)].op = "transferCheckedWithFee"
    /\ run'[p].log[Len(run'[p].log)].res = "ok"

Moved(L, M, from, to, mint, A, F) ==
    /\ BigLe(F, A)
    /\ BigAdd(M.ata[<<from, mint>>].amount, A) = L.ata[<<from, mint>>].amount
    /\ M.ata[<<to, mint>>].amount = BigAdd(L.ata[<<to, mint>>].amount, BigSub(A, F))
    /\ M.ata[<<to, mint>>].withheld = BigAdd(L.ata[<<to, mint>>].withheld, F)
    /\ M.ata[<<from, mint>>].withheld = L.ata[<<from, mint>>].withheld
    /\ BigAdd(BigAdd(M.ata[<<from, mint>>].amount, M.ata[<<to, mint>>].amount),
              M.ata[<<to, mint>>].withheld)
         = BigAdd(BigAdd(L.ata[<<from, mint>>].amount, L.ata[<<to, mint>>].amount),
                  L.ata[<<to, mint>>].withheld)
    /\ \A k \in DOMAIN L.ata :
          k \notin {<<from, mint>>, <<to, mint>>} => M.ata[k] = L.ata[k]
    /\ M.mint = L.mint
    /\ M.lamports = L.lamports

C19_Step ==
    \A p \in Procs :
        TransferSucceeds(p) =>
            /\ run[p].to # run[p].key
            /\ Moved(ledger, ledger', run[p].key, run[p].to, run[p].cfg.mint,
                     run'[p].log[Len(run'[p].log)].ixs[1].amount,
                     run'[p].log[Len(run'[p].log)].ixs[1].fee)

C19_TransferMoves == []C19_State /\ [][C19_Step]_vars

\* a transfer with the shipped constants has succeeded and the recipient,
\* whose account the run created, holds A - F spendable and F withheld
C19_Witness ==
    \E p \in Procs :
        /\ run[p].script = "spl_transfer"
        /\ run[p].result = "success"
        /\ Shipped(run[p].cfg)
        /\ "recipient-balance" \in Printed(p)
        /\ ledger.ata[<<run[p].to, run[p].cfg.mint>>].amount = <<0, 0, 990>>
        /\ ledger.ata[<<run[p].to, run[p].cfg.mint>>].withheld = <<0, 0, 10>>

(***************************************************************************)
(* C20.  As stated: a mint created by the standard-program Mint            *)
(* Initializer variant can be used as the mint of the Token Minter, as     *)
(* the variant's printed next steps instruct: a Token Minter run           *)
(* configured with that mint, run with the funded key that is the mint's   *)
(* authority, with no network failure and no other Token Minter run        *)
(* beside it, creates the holding account and mints into it successfully.  *)
(***************************************************************************)
StandardMint(L, m) ==
    /\ L.mint[m].initialized
    /\ L.mint[m].program = "token"
    /\ L.meta[m].kind # "nft"

NoNetworkFailure(p) ==
    \A i \in DOMAIN run[p].log :
        run[p].log[i].res = "fail" =>
            run[p].log[i].processed /\ ~run[p].log[i].applied

C20_StandardMintUsable ==
    \A p \in Procs :
        /\ run[p].script = "spl_mint"
        /\ run[p].pc = "end"
        /\ run[p].result # "crashed"
        /\ StandardMint(ledger, run[p].cfg.mint)
        /\ ledger.mint[run[p].cfg.mint].authority = run[p].key
        /\ CanPay(ledger, run[p].key)
        /\ NoNetworkFailure(p)
        /\ \A q \in Procs \ {p} : run[q].script # "spl_mint"
        => /\ run[p].result = "success"
           /\ ledger.ata[<<run[p].key, run[p].cfg.mint>>].exists
           /\ ledger.ata[<<run[p].key, run[p].cfg.mint>>].amount # <<>>

(***************************************************************************)
(* C21.  In the Fee-Aware Transfer the transfer instruction is submitted   *)
(* only when the recipient's holding account exists: when the read         *)
(* reports it absent, a creation transaction is submitted and confirmed    *)
(* first, and a failure of that creation means that the transfer is never  *)
(* submitted.                                                              *)
(***************************************************************************)
CreationAt(p) ==
    {i \in TxAt(p) : Names(run[p].log[i].ixs) = <<"createAssociatedTokenAccount">>}

TransferAt(p) ==
    {i \in TxAt(p) : Names(run[p].log[i].ixs) = <<"transferCheckedWithFee">>}

C21_AccountBeforeTransfer ==
    \A p \in Procs :
        run[p].script = "spl_transfer" =>
            /\ \A i \in TransferAt(p) :
                  /\ ledger.ata[<<run[p].to, run[p].cfg.mint>>].exists
                  /\ \E r \in OkAt(p, "getAccountInfo") : r < i
                  /\ run[p].seen = "absent" =>
                        \E j \in CreationAt(p) :
                            /\ j < i
                            /\ run[p].log[j].res = "ok"
                            /\ run[p].log[j].applied
                            /\ run[p].log[j].ixs[1].owner = run[p].to
            /\ (\E j \in CreationAt(p) : run[p].log[j].res = "fail") =>
                  /\ TransferAt(p) = {}
                  /\ run[p].result = "caught"
            /\ run[p].pc = "t_transfer" =>
                  ledger.ata[<<run[p].to, run[p].cfg.mint>>].exists

\* a transfer was submitted after the run created the recipient's account
C21_Witness ==
    \E p \in Procs : \E i \in TransferAt(p) : \E j \in CreationAt(p) :
        /\ run[p].script = "spl_transfer"
        /\ run[p].seen = "absent"
        /\ j < i
        /\ run[p].log[j].applied
        /\ run[p].log[i].applied

(***************************************************************************)
(* C22.  In NFT pipeline steps 2 (nft_metadata) and 3 (nft_mint), a        *)
(* configured input URI that contains the placeholder marker "<PASTE" or   *)
(* is shorter than 10 characters makes the run exit with status 1 before   *)
(* any upload or transaction submission; with a URI that passes the check  *)
(* the run proceeds to exactly one upload (step 2) or exactly one          *)
(* NFT-creation submission (step 3).                                       *)
(***************************************************************************)
NftSteps == {"nft_metadata", "nft_mint"}

Placeholder(u) == Includes(u, PASTE) \/ Len(u) < 10

\* the run got past the loading of its wallet and ran to its end
RanToEnd(p) == run[p].pc = "end" /\ run[p].result \notin {"crashed", "uncaught"}

C22_NftUriValidated ==
    \A p \in Procs :
        run[p].script \in NftSteps =>
            /\ Placeholder(run[p].cfg.uri) =>
                  /\ OpsAt(p, "uploadJson") = {}
                  /\ TxAt(p) = {}
                  /\ RanToEnd(p) =>
                        /\ run[p].result = "exit1"
                        /\ ExitStatus(run[p].result) = 1
                        /\ "validation-error" \in Printed(p)
            /\ ~Placeholder(run[p].cfg.uri) /\ RanToEnd(p) =>
                  /\ run[p].result # "exit1"
                  /\ run[p].script = "nft_metadata" =>
                        /\ Cardinality(OpsAt(p, "uploadJson")) = 1
                        /\ TxAt(p) = {}
                  /\ run[p].script = "nft_mint" =>
                        /\ Cardinality(TxAt(p)) = 1
                        /\ OpsAt(p, "uploadJson") = {}
                        /\ \A i \in TxAt(p) :
                              /\ Names(run[p].log[i].ixs) = <<"createNft">>
                              /\ run[p].log[i].ixs[1].uri = run[p].cfg.uri

\* step 2, configured with a placeholder of ten characters or more, has
\* exited with status 1 having done nothing but load its wallet
C22_Witness ==
    \E p \in Procs :
        /\ run[p].script = "nft_metadata"
        /\ run[p].cfg.uri = UriPaste
        /\ Len(run[p].cfg.uri) >= 10
        /\ run[p].result = "exit1"
        /\ Len(run[p].log) = 1
        /\ run[p].log[1].op = "loadWallet"

(***************************************************************************)
(* C23.  For the fee parameters the Mint Initializer configures (100       *)
(* basis points, 9 decimals) and every whole-number token amount n, the    *)
(* product (n x 10^9) x 100 is an exact multiple of 10000, so that the     *)
(* client's truncating division loses nothing and the declared fee equals  *)
(* the ledger's fee whether the ledger rounds down or up; the transfer     *)
(* script's basis points, cap and decimals equal the values the Mint       *)
(* Initializer wrote.                                                      *)
(***************************************************************************)
InitializerParameters(c) ==
    /\ c.bps = SplInit_TRANSFER_FEE_BASIS_POINTS
    /\ c.decimals = SplInit_DECIMALS
    /\ c.maxFee = SplInit_MAX_FEE

InitializerFee == [bps |-> SplInit_TRANSFER_FEE_BASIS_POINTS, maxFee |-> SplInit_MAX_FEE]

Exact(prod) == BigMulSmall(BigDivSmall(prod, 10000), 10000) = prod

\* the declared fee is the one a mint with the initializer's fee
\* configuration charges, under either rounding
RoundingFree(A, fee) ==
    /\ Exact(BigMulSmall(A, SplInit_TRANSFER_FEE_BASIS_POINTS))
    /\ fee = FeeOfProduct(BigMulSmall(A, SplInit_TRANSFER_FEE_BASIS_POINTS),
                          InitializerFee, "floor")
    /\ fee = FeeOfProduct(BigMulSmall(A, SplInit_TRANSFER_FEE_BASIS_POINTS),
                          InitializerFee, "ceil")

C23_FeeExact ==
    /\ SplTransfer_TRANSFER_FEE_BASIS_POINTS = SplInit_TRANSFER_FEE_BASIS_POINTS
    /\ SplTransfer_MAX_FEE = SplInit_MAX_FEE
    /\ SplTransfer_DECIMALS = SplInit_DECIMALS
    /\ InitializerParameters(ShippedTransfer)
    /\ \A p \in Procs :
          run[p].script = "spl_transfer" /\ InitializerParameters(run[p].cfg) =>
              /\ \A i \in TransferAt(p) :
                    /\ RoundingFree(run[p].log[i].ixs[1].amount, run[p].log[i].ixs[1].fee)
                    /\ ledger.mint[run[p].cfg.mint].feeInit =>
                          /\ ledger.mint[run[p].cfg.mint].bps = run[p].cfg.bps
                          /\ ledger.mint[run[p].cfg.mint].maxFee = run[p].cfg.maxFee
                          /\ run[p].log[i].ixs[1].fee =
                                LedgerFee(ledger, ledger.mint[run[p].cfg.mint],
                                          run[p].log[i].ixs[1].amount)
              /\ run[p].pc = "t_transfer" =>
                    \A n \in 1..MaxTokens :
                        RoundingFree(TransferAmount([run[p].cfg EXCEPT !.amount = n]),
                                     Fee([run[p].cfg EXCEPT !.amount = n]))

\* a ledger that rounds up has applied a transfer of one token, whose fee
\* of 10^7 base units is below the cap
C23_Witness ==
    \E p \in Procs : \E i \in TransferAt(p) :
        /\ run[p].script = "spl_transfer"
        /\ InitializerParameters(run[p].cfg)
        /\ run[p].cfg.amount = 1
        /\ ledger.rounding = "ceil"
        /\ run[p].log[i].applied
        /\ run[p].log[i].ixs[1].fee = <<0, 1000>>
        /\ ledger.ata[<<run[p].to, run[p].cfg.mint>>].withheld = <<0, 1000>>

(***************************************************************************)
(* C24.  Every successful Token Minter run increases the mint's supply     *)
(* and the holding account's balance by exactly 1,000,000,000 x 10^9 =     *)
(* 10^18 base units, whether or not the holding account existed            *)
(* beforehand; the amount fits in an unsigned 64-bit integer, and the      *)
(* supply, k x 10^18 after k mint-increases, stays within 64 bits only     *)
(* for k <= 18: the increase that would make it 19 x 10^18 is rejected.    *)
(***************************************************************************)
TenToEighteen == <<0, 0, 0, 0, 100>>

MintIncreaseAt(p) == {i \in TxAt(p) : Names(run[p].log[i].ixs) = <<"mintTo">>}

C24_State ==
    /\ TokensToMint = TenToEighteen
    /\ BigLe(TokensToMint, U64Max)
    /\ BigLe(BigMulSmall(TenToEighteen, 18), U64Max)
    /\ BigLt(U64Max, BigMulSmall(TenToEighteen, 19))
    /\ \A m \in MintAddrs :
          ledger.mint[m].feeInit =>
              \E k \in 0..18 : ledger.mint[m].supply = BigMulSmall(TenToEighteen, k)
    /\ \A p \in Procs :
          run[p].script = "spl_mint" =>
              /\ \A i \in MintIncreaseAt(p) :
                    run[p].log[i].ixs[1].amount = TenToEighteen
              /\ run[p].result = "success" =>
                    \E i \in MintIncreaseAt(p) : run[p].log[i].applied
              /\ Cardinality({i \in MintIncreaseAt(p) : run[p].log[i].applied}) <= 1

\* the runs of the mint's Token Minter whose mint-increase the ledger applied
Landed(m) ==
    {p \in Procs : /\ run[p].script = "spl_mint"
                   /\ run[p].cfg.mint = m
                   /\ \E i \in MintIncreaseAt(p) : run[p].log[i].applied}

\* every run made so far is a Token Minter run that is still on record
OnlyMinterRuns ==
    /\ started = Cardinality({p \in Procs : run[p].script # "none"})
    /\ \A p \in Procs : run[p].script \in {"none", "spl_mint"}

C24_Supply ==
    OnlyMinterRuns =>
        \A m \in MintAddrs :
            /\ ledger.mint[m].supply =
                  BigAdd(ledger0.mint[m].supply,
                         BigMulSmall(TenToEighteen, Cardinality(Landed(m))))
            /\ \A p \in Procs :
                  run[p].script = "spl_mint" /\ run[p].cfg.mint = m
                  /\ run[p].result = "success" => p \in Landed(m)

\* this step is the mint-increase of run p, processed by the ledger
MintIncreaseProcessed(p) ==
    /\ run[p].script = "spl_mint"
    /\ run[p].pc = "m_mintTo"
    /\ Len(run'[p].log) = Len(run[p].log) + 1
    /\ run'[p].log[Len(run'[p].log)].processed

IncreasedBy(L, M, k, m, amount) ==
    /\ M.mint[m].supply = BigAdd(L.mint[m].supply, amount)
    /\ M.ata[<<k, m>>].amount = BigAdd(L.ata[<<k, m>>].amount, amount)
    /\ M.ata[<<k, m>>].exists
    /\ \A a \in DOMAIN L.ata : a # <<k, m>> => M.ata[a] = L.ata[a]
    /\ \A n \in MintAddrs : n # m => M.mint[n] = L.mint[n]

C24_Step ==
    \A p \in Procs :
        MintIncreaseProcessed(p) =>
            /\ run'[p].result = "success" =>
                  IncreasedBy(ledger, ledger', run[p].key, run[p].mint, TenToEighteen)
            /\ run'[p].log[Len(run'[p].log)].applied =>
                  IncreasedBy(ledger, ledger', run[p].key, run[p].mint, TenToEighteen)
            /\ ledger.mint[run[p].mint].supply = BigMulSmall(TenToEighteen, 18) =>
                  /\ ~run'[p].log[Len(run'[p].log)].applied
                  /\ run'[p].result = "caught"
                  /\ ledger' = ledger

C24_MintsTenToEighteen == [](C24_State /\ C24_Supply) /\ [][C24_Step]_vars

\* a successful run has brought the supply to 18 x 10^18
C24_Witness ==
    \E p \in Procs :
        /\ run[p].script = "spl_mint"
        /\ run[p].result = "success"
        /\ ledger.mint[run[p].mint].supply = BigMulSmall(TenToEighteen, 18)
        /\ ledger.ata[<<run[p].key, run[p].mint>>].amount = BigMulSmall(TenToEighteen, 18)

(***************************************************************************)
(* C25.  When two Token Minter runs race on the same absent holding        *)
(* account, the account is created exactly once; a run whose creation      *)
(* transaction is rejected because the account appeared after its          *)
(* existence check ends in its failure handler without submitting the      *)
(* mint-increase and without retrying, so that run leaves the supply       *)
(* unchanged.                                                              *)
(***************************************************************************)
\* both runs read the same holding account and found it absent
Racing(p, q) ==
    /\ p # q
    /\ run[p].script = "spl_mint" /\ run[q].script = "spl_mint"
    /\ run[p].seen = "absent" /\ run[q].seen = "absent"
    /\ run[p].mint = run[q].mint
    /\ run[p].key = run[q].key

CreationApplied(p) == {i \in CreationAt(p) : run[p].log[i].applied}

\* the creation of run p was processed and rejected, and the account is there
LostRace(p) ==
    /\ CreationAt(p) # {}
    /\ \A i \in CreationAt(p) : run[p].log[i].processed /\ ~run[p].log[i].applied
    /\ ledger.ata[<<run[p].key, run[p].mint>>].exists

C25_CreatedOnce ==
    \A p, q \in Procs :
        Racing(p, q) =>
            /\ Cardinality(CreationApplied(p)) + Cardinality(CreationApplied(q)) <= 1
            /\ ledger.ata[<<run[p].key, run[p].mint>>].exists <=>
                  Cardinality(CreationApplied(p)) + Cardinality(CreationApplied(q)) = 1
            /\ LostRace(p) =>
                  /\ run[p].result = "caught"
                  /\ run[p].pc = "end"
                  /\ "oops" \in Printed(p)
                  /\ Cardinality(TxAt(p)) = 1
                  /\ MintIncreaseAt(p) = {}
                  /\ p \notin Landed(run[p].mint)
                  /\ started = 2 /\ run[q].pc = "end" =>
                        ledger.mint[run[p].mint].supply =
                            BigAdd(ledger0.mint[run[p].mint].supply,
                                   BigMulSmall(TenToEighteen,
                                               Cardinality(Landed(run[p].mint) \ {p})))

\* two runs found the account absent; one created it and minted, the other
\* had its creation rejected and ended in its failure handler
C25_Witness ==
    \E p, q \in Procs :
        /\ Racing(p, q)
        /\ LostRace(p)
        /\ run[p].result = "caught"
        /\ CreationApplied(q) # {}
        /\ run[q].result = "success"
        /\ ledger.mint[run[p].mint].supply =
              BigAdd(ledger0.mint[run[p].mint].supply, TenToEighteen)

(***************************************************************************)
(* C26.  As stated: the Balance Funder prints its success line only when   *)
(* the airdrop transaction was confirmed without an error status; a        *)
(* confirmation that completes but reports the transaction as failed       *)
(* never leads to the success report.                                      *)
(***************************************************************************)
C26_SuccessOnlyWhenLanded ==
    \A p \in Procs :
        run[p].script = "airdrop" /\ "success" \in Printed(p) =>
            /\ OkAt(p, "confirmTransaction") # {}
            /\ run[p].drop = "landed"

====
